---------------------------- MODULE Spec2Model ----------------------------
(***************************************************************************)
(* A model of the LGE compiler: lexer (src/src/lexer.cpp), parser          *)
(* (src/src/parser.cpp), code generator (src/src/codegen.cpp) and the      *)
(* driver (src/src/main.cpp).                                              *)
(*                                                                         *)
(* A source buffer is a sequence of one-character strings.  A token is a   *)
(* record [type, value, line, column]; its value is a sequence of strings  *)
(* (the characters of the lexeme, or a one-element sequence holding the    *)
(* message of an error token).                                             *)
(***************************************************************************)
EXTENDS Integers, Sequences, FiniteSets, TLC

VARIABLES
  input,        \* Lexer::input, the source buffer
  position,     \* Lexer::position (0-based read position)
  line,         \* Lexer::line
  column,       \* Lexer::column
  tokens,       \* the vector built by Lexer::tokenize / held by the Parser
  starts,       \* offset in input at which the scan of each token began
  current,      \* Parser::current
  errors,       \* Parser::errors
  prog,         \* Program::functions built by Parser::parse
  module,       \* the IR functions of llvm::Module, in creation order
  functions,    \* CodeGenerator::functions (the function table)
  cgErrors,     \* messages written by CodeGenerator::reportError
  genIdx,       \* number of FunctionDefs CodeGenerator::generate has visited
  dumpTokens,   \* the --dump-tokens flag of main
  codegenMade,  \* whether main constructed a CodeGenerator
  irOut,        \* what emitIR wrote to stdout ("none" before)
  exitCode,     \* the return value of main (-1 while running)
  pc,           \* where the run is
  glob_buffer,  \* the static buffer of the runtime library
  stdin,        \* the bytes the runtime library has not read from stdin yet
  called        \* the last call into the runtime library, and what it did

vars == <<input, position, line, column, tokens, starts, current, errors, prog,
          module, functions, cgErrors, genIdx, dumpTokens, codegenMade, irOut,
          exitCode, pc, glob_buffer, stdin, called>>
\* The state of the runtime library, which the compiler does not touch.
rtVars == <<glob_buffer, stdin, called>>

(***************************************************************************)
(* Bounds of the model.                                                    *)
(***************************************************************************)
MaxSrcLen == 4

(***************************************************************************)
(* Characters.                                                             *)
(***************************************************************************)
NUL == "NUL"   \* the '\0' that Lexer::peek and Lexer::advance return at the end

Lower == {"a","b","c","d","e","f","g","h","i","j","k","l","m","n","o","p","q",
          "r","s","t","u","v","w","x","y","z"}

isalpha(c) == c \in Lower
isdigit(c) == c \in {"0","1","2","3","4","5","6","7","8","9"}
isalnum(c) == isalpha(c) \/ isdigit(c)

(***************************************************************************)
(* Bind(e, F) is F(e) with e evaluated once: the value of a local variable *)
(* of the code that is assigned once and read several times.               *)
(***************************************************************************)
Bind(e, F(_)) == CHOOSE v \in {F(r) : r \in {e}} : TRUE

(***************************************************************************)
(* The lexer.  A lexer state is a record [position, line, column].         *)
(***************************************************************************)
Lexer_isAtEnd(inp, ls) == ls.position >= Len(inp)

Lexer_peek(inp, ls, offset) ==
  IF ls.position + offset >= Len(inp) THEN NUL ELSE inp[ls.position + offset + 1]

\* Lexer::advance: the state after it; the character it returns is
\* Lexer_peek(inp, ls, 0).
Lexer_advance(inp, ls) ==
  IF Lexer_isAtEnd(inp, ls) THEN ls
  ELSE LET c == inp[ls.position + 1]
       IN  IF c = "\n"
           THEN [position |-> ls.position + 1, line |-> ls.line + 1, column |-> 1]
           ELSE [position |-> ls.position + 1, line |-> ls.line,
                 column |-> ls.column + 1]

\* Lexer::match: [hit, ls].
Lexer_match(inp, ls, expected) ==
  IF Lexer_isAtEnd(inp, ls) \/ Lexer_peek(inp, ls, 0) # expected
  THEN [hit |-> FALSE, ls |-> ls]
  ELSE [hit |-> TRUE, ls |-> Lexer_advance(inp, ls)]

RECURSIVE skipWhitespace(_, _)
skipWhitespace(inp, ls) ==
  LET c == Lexer_peek(inp, ls, 0)
  IN  IF c \in {" ", "\t", "\r"}
      THEN skipWhitespace(inp, Lexer_advance(inp, ls))
      ELSE IF c = "\n"
      THEN Bind(Lexer_advance(inp, ls), LAMBDA a :
             skipWhitespace(inp, [a EXCEPT !.line = a.line + 1, !.column = 1]))
      ELSE ls

Token(type, value, l, c) == [type |-> type, value |-> value, line |-> l, column |-> c]

makeToken(ls, type, value) == Token(type, value, ls.line, ls.column - Len(value))

errorToken(ls, message) == Token("UNKNOWN", <<message>>, ls.line, ls.column)

keywords ==
  [k \in {<<"l","e","t">>, <<"i","f">>, <<"t","h","e","n">>, <<"e","l","s","e">>,
          <<"i","n","t">>, <<"f","l","o","a","t">>, <<"c","h","a","r">>,
          <<"s","t","r">>, <<"f","u","n","c">>} |->
     CASE k = <<"l","e","t">>         -> "LET"
       [] k = <<"i","f">>             -> "IF"
       [] k = <<"t","h","e","n">>     -> "THEN"
       [] k = <<"e","l","s","e">>     -> "ELSE"
       [] k = <<"i","n","t">>         -> "TYPE_INT"
       [] k = <<"f","l","o","a","t">> -> "TYPE_FLOAT"
       [] k = <<"c","h","a","r">>     -> "TYPE_CHAR"
       [] k = <<"s","t","r">>         -> "TYPE_STR"
       [] k = <<"f","u","n","c">>     -> "TYPE_FUNC"]

RECURSIVE identRest(_, _)
identRest(inp, ls) ==
  IF isalnum(Lexer_peek(inp, ls, 0)) \/ Lexer_peek(inp, ls, 0) = "_"
  THEN identRest(inp, Lexer_advance(inp, ls))
  ELSE ls

\* Lexer::handleIdentifier, entered with the first character not yet consumed.
handleIdentifier(inp, ls) ==
  LET start == ls.position
      startColumn == ls.column
  IN  Bind(identRest(inp, Lexer_advance(inp, ls)), LAMBDA e :
        LET text == SubSeq(inp, start + 1, e.position)
            type == IF text \in DOMAIN keywords THEN keywords[text] ELSE "IDENTIFIER"
        IN  [tok |-> Token(type, text, e.line, startColumn), ls |-> e])

RECURSIVE digits(_, _)
digits(inp, ls) ==
  IF isdigit(Lexer_peek(inp, ls, 0)) THEN digits(inp, Lexer_advance(inp, ls)) ELSE ls

handleNumber(inp, ls) ==
  LET start == ls.position
      startColumn == ls.column
  IN  Bind(digits(inp, ls), LAMBDA i :
        LET isFloat == Lexer_peek(inp, i, 0) = "." /\ isdigit(Lexer_peek(inp, i, 1))
        IN  Bind(IF isFloat THEN digits(inp, Lexer_advance(inp, i)) ELSE i, LAMBDA e :
              [tok |-> Token(IF isFloat THEN "FLOAT_LITERAL" ELSE "INT_LITERAL",
                             SubSeq(inp, start + 1, e.position), e.line, startColumn),
               ls |-> e]))

\* The character an escape sequence \c stands for (Lexer::handleString's switch).
escaped(c) ==
  CASE c = "n" -> "\n"
    [] c = "t" -> "\t"
    [] c = "r" -> "\r"
    [] OTHER   -> c

\* The loop of Lexer::handleString: [value, ls] when it ends.
RECURSIVE stringBody(_, _, _)
stringBody(inp, ls, value) ==
  IF Lexer_peek(inp, ls, 0) # "\"" /\ ~Lexer_isAtEnd(inp, ls)
  THEN LET n == IF Lexer_peek(inp, ls, 0) = "\n"
                THEN [ls EXCEPT !.line = ls.line + 1, !.column = 1]
                ELSE ls
       IN  IF Lexer_peek(inp, n, 0) = "\\"
           THEN Bind(Lexer_advance(inp, n), LAMBDA b :
                  stringBody(inp, Lexer_advance(inp, b),
                             Append(value, escaped(Lexer_peek(inp, b, 0)))))
           ELSE stringBody(inp, Lexer_advance(inp, n),
                           Append(value, Lexer_peek(inp, n, 0)))
  ELSE [value |-> value, ls |-> ls]

\* Lexer::handleString, entered with the opening quote consumed.
handleString(inp, ls) ==
  LET startColumn == ls.column - 1
  IN  Bind(stringBody(inp, ls, <<>>), LAMBDA b :
        IF Lexer_isAtEnd(inp, b.ls)
        THEN [tok |-> errorToken(b.ls, "Unterminated string"), ls |-> b.ls]
        ELSE Bind(Lexer_advance(inp, b.ls), LAMBDA e :
               [tok |-> Token("STRING_LITERAL", b.value, e.line, startColumn),
                ls |-> e]))

RECURSIVE commentRest(_, _)
commentRest(inp, ls) ==
  IF Lexer_peek(inp, ls, 0) # "\n" /\ ~Lexer_isAtEnd(inp, ls)
  THEN commentRest(inp, Lexer_advance(inp, ls))
  ELSE ls

\* Lexer::handleComment, entered with the '#' consumed.
handleComment(inp, ls) ==
  LET startColumn == ls.column - 1
      start == ls.position
  IN  Bind(commentRest(inp, ls), LAMBDA e :
        [tok |-> Token("COMMENT", <<"#">> \o SubSeq(inp, start + 1, e.position),
                       e.line, startColumn),
         ls |-> e])

\* A two-character operator c1 c2 or the one-character c1.
twoOrOne(inp, a, second, typeTwo, c1, typeOne) ==
  Bind(Lexer_match(inp, a, second), LAMBDA m :
    IF m.hit THEN [tok |-> makeToken(m.ls, typeTwo, <<c1, second>>), ls |-> m.ls]
    ELSE [tok |-> makeToken(a, typeOne, <<c1>>), ls |-> a])

oneChar ==
  [c \in {"(", ")", ",", ":", "+", "*", "/", "\\", "\n"} |->
     CASE c = "("  -> "LPAREN"
       [] c = ")"  -> "RPAREN"
       [] c = ","  -> "COMMA"
       [] c = ":"  -> "COLON"
       [] c = "+"  -> "PLUS"
       [] c = "*"  -> "MULTIPLY"
       [] c = "/"  -> "DIVIDE"
       [] c = "\\" -> "BACKSLASH"
       [] c = "\n" -> "NEWLINE"]

\* Lexer::nextToken: [tok, ls, start], start being the read position after the
\* whitespace was skipped.
nextToken(inp, ls0) ==
  Bind(skipWhitespace(inp, ls0), LAMBDA w :
  Bind(Lexer_advance(inp, w), LAMBDA a :
    LET c == Lexer_peek(inp, w, 0)
        back == [a EXCEPT !.position = a.position - 1, !.column = a.column - 1]
    IN  Bind(IF Lexer_isAtEnd(inp, w)
               THEN [tok |-> makeToken(w, "EOF_TOKEN", <<>>), ls |-> w]
             ELSE IF isalpha(c) \/ c = "_" THEN handleIdentifier(inp, back)
             ELSE IF isdigit(c) THEN handleNumber(inp, back)
             ELSE IF c = "\"" THEN handleString(inp, a)
             ELSE IF c = "#" THEN handleComment(inp, a)
             ELSE IF c \in DOMAIN oneChar
               THEN [tok |-> makeToken(a, oneChar[c], <<c>>), ls |-> a]
             ELSE IF c = "-" THEN twoOrOne(inp, a, ">", "ARROW", "-", "MINUS")
             ELSE IF c = "=" THEN twoOrOne(inp, a, "=", "EQUAL_EQUAL", "=", "EQUALS")
             ELSE IF c = "<" THEN twoOrOne(inp, a, "=", "LESS_EQUAL", "<", "LESS_THAN")
             ELSE IF c = ">"
               THEN twoOrOne(inp, a, "=", "GREATER_EQUAL", ">", "GREATER_THAN")
             ELSE IF c = "!"
               THEN IF Lexer_match(inp, a, "=").hit
                    THEN [tok |-> makeToken(Lexer_match(inp, a, "=").ls, "NOT_EQUAL",
                                            <<"!", "=">>),
                          ls |-> Lexer_match(inp, a, "=").ls]
                    ELSE [tok |-> errorToken(a, "Unexpected character '!'"),
                          ls |-> a]
             ELSE [tok |-> errorToken(a, "Unexpected character"), ls |-> a],
             LAMBDA r : [tok |-> r.tok, ls |-> r.ls, start |-> w.position])))

\* A round of the loop of Lexer::tokenize on the loop state t = [tokens, ls,
\* starts, done]: nextToken, push_back, and done at the EOF token.
tokenizeRound(inp, t) ==
  Bind(nextToken(inp, t.ls), LAMBDA n :
    [tokens |-> Append(t.tokens, n.tok), ls |-> n.ls,
     starts |-> Append(t.starts, n.start), done |-> n.tok.type = "EOF_TOKEN"])

\* Up to n rounds of the loop, stopping when done.
RECURSIVE tokenizeRounds(_, _, _)
tokenizeRounds(inp, t, n) ==
  IF t.done \/ n = 0 THEN t
  ELSE IF n = 1 THEN tokenizeRound(inp, t)
  ELSE Bind(tokenizeRounds(inp, t, n \div 2), LAMBDA h :
         tokenizeRounds(inp, h, n - (n \div 2)))

\* The loop of Lexer::tokenize: rounds until done.
RECURSIVE tokenizeFrom(_, _)
tokenizeFrom(inp, t) ==
  Bind(tokenizeRounds(inp, t, Len(inp) + 1), LAMBDA r :
    IF r.done THEN r ELSE tokenizeFrom(inp, r))

\* Lexer::tokenize on a Lexer in state ls: the tokens, the state after, and
\* the position each token starts at.
tokenize(inp, ls) ==
  Bind(tokenizeFrom(inp, [tokens |-> <<>>, ls |-> ls, starts |-> <<>>,
                          done |-> FALSE]), LAMBDA t :
    [tokens |-> t.tokens, ls |-> t.ls, starts |-> t.starts])

\* The state of a Lexer after construction (lexer.h, the member initialisers).
FreshLexer == [position |-> 0, line |-> 1, column |-> 1]


(***************************************************************************)
(* The parser.  The cursor cur is Parser::current (0-based); a parse       *)
(* function returns [ok, cur, node, err]: ok = FALSE stands for the        *)
(* std::runtime_error it throws, err being the message (with the line and  *)
(* column it carries when located), and cur the cursor it leaves behind.   *)
(***************************************************************************)
Null == [kind |-> "null"]

\* What reading tokens[-1] yields (Parser::previous with current = 0).
OutOfRange == Token("OUT_OF_RANGE", <<>>, 0, 0)

Parser_peek(toks, cur) == toks[cur + 1]

Parser_previous(toks, cur) == IF cur >= 1 THEN toks[cur] ELSE OutOfRange

Parser_isAtEnd(toks, cur) == Parser_peek(toks, cur).type = "EOF_TOKEN"

\* Parser::advance: the cursor after it; it returns Parser_previous there.
Parser_advance(toks, cur) == IF ~Parser_isAtEnd(toks, cur) THEN cur + 1 ELSE cur

check(toks, cur, type) ==
  IF Parser_isAtEnd(toks, cur) THEN FALSE ELSE Parser_peek(toks, cur).type = type

\* Parser::match over a set of token types: [hit, cur].
Parser_match(toks, cur, types) ==
  IF \E t \in types : check(toks, cur, t)
  THEN [hit |-> TRUE, cur |-> Parser_advance(toks, cur)]
  ELSE [hit |-> FALSE, cur |-> cur]

Ok(cur, node) == [ok |-> TRUE, cur |-> cur, node |-> node, err |-> Null]

\* throw std::runtime_error(text), no location in the message.
Throw(cur, text) ==
  [ok |-> FALSE, cur |-> cur, node |-> Null,
   err |-> [kind |-> "error", text |-> text, located |-> FALSE,
            line |-> 0, column |-> 0]]

\* Then(e, F): F applied to the result of e, unless e threw.
Then(e, F(_)) == Bind(e, LAMBDA r : IF r.ok THEN F(r) ELSE r)

consume(toks, cur, type, message) ==
  IF check(toks, cur, type)
  THEN Ok(Parser_advance(toks, cur), Parser_previous(toks, Parser_advance(toks, cur)))
  ELSE [ok |-> FALSE, cur |-> cur, node |-> Null,
        err |-> [kind |-> "error", text |-> message, located |-> TRUE,
                 line |-> Parser_peek(toks, cur).line,
                 column |-> Parser_peek(toks, cur).column]]

RECURSIVE synchronizeLoop(_, _)
synchronizeLoop(toks, cur) ==
  IF Parser_isAtEnd(toks, cur) THEN cur
  ELSE IF Parser_previous(toks, cur).type = "NEWLINE" THEN cur
  ELSE IF Parser_peek(toks, cur).type = "LET" THEN cur
  ELSE synchronizeLoop(toks, Parser_advance(toks, cur))

\* A variant without the advance() that synchronize starts with.
synchronizeNoAdvance(toks, cur) == synchronizeLoop(toks, cur)

\* A variant whose first step is current++ without the test of advance(), and
\* which returns when that step leaves the tokens.
synchronizePastEnd(toks, cur) ==
  IF Parser_isAtEnd(toks, cur) THEN cur + 1 ELSE synchronizeLoop(toks, cur + 1)

\* A variant that leaves the cursor where the parse function threw.
synchronizeStay(toks, cur) == cur

synchronize(toks, cur) == synchronizeLoop(toks, Parser_advance(toks, cur))

Loc(tok) == [line |-> tok.line, column |-> tok.column]

typeKinds ==
  [t \in {"TYPE_INT", "TYPE_FLOAT", "TYPE_CHAR", "TYPE_STR", "TYPE_FUNC"} |->
     CASE t = "TYPE_INT"   -> "INT"
       [] t = "TYPE_FLOAT" -> "FLOAT"
       [] t = "TYPE_CHAR"  -> "CHAR"
       [] t = "TYPE_STR"   -> "STR"
       [] t = "TYPE_FUNC"  -> "FUNC"]

parseType(toks, cur) ==
  LET c == Parser_advance(toks, cur)
      typeToken == Parser_previous(toks, c)
  IN  IF typeToken.type \in DOMAIN typeKinds
      THEN Ok(c, [kind |-> typeKinds[typeToken.type], loc |-> Loc(typeToken)])
      ELSE Throw(c, "Expected type identifier")

\* The do-while loop of Parser::parseParameters, params being those read so far.
RECURSIVE parametersLoop(_, _, _)
parametersLoop(toks, cur, params) ==
  Then(consume(toks, cur, "IDENTIFIER", "Expected parameter name"), LAMBDA n :
  Then(consume(toks, n.cur, "COLON", "Expected ':' after parameter name"), LAMBDA c :
  Then(parseType(toks, c.cur), LAMBDA t :
    LET ps == Append(params, [name |-> n.node.value, type |-> t.node,
                              loc |-> Loc(n.node)])
        m == Parser_match(toks, t.cur, {"COMMA"})
    IN  IF m.hit THEN parametersLoop(toks, m.cur, ps) ELSE Ok(m.cur, ps))))

parseParameters(toks, cur) ==
  IF check(toks, cur, "RPAREN") THEN Ok(cur, <<>>)
  ELSE parametersLoop(toks, cur, <<>>)

\* std::stoi on a string of decimal digits: the value, or OutOfIntRange when
\* it does not fit an int (std::out_of_range is thrown).
IntMax == 2147483647
OutOfIntRange == -1

digitValue(c) ==
  CASE c = "0" -> 0 [] c = "1" -> 1 [] c = "2" -> 2 [] c = "3" -> 3 [] c = "4" -> 4
    [] c = "5" -> 5 [] c = "6" -> 6 [] c = "7" -> 7 [] c = "8" -> 8 [] c = "9" -> 9

RECURSIVE stoi(_)
stoi(ds) ==
  IF ds = <<>> THEN 0
  ELSE Bind(stoi(SubSeq(ds, 1, Len(ds) - 1)), LAMBDA h :
         LET d == digitValue(ds[Len(ds)])
         IN  IF h = OutOfIntRange \/ h > IntMax \div 10
                \/ (h = IntMax \div 10 /\ d > IntMax % 10)
             THEN OutOfIntRange
             ELSE 10 * h + d)

binaryOps ==
  [t \in {"PLUS", "MINUS", "MULTIPLY", "DIVIDE", "LESS_THAN", "GREATER_THAN",
          "LESS_EQUAL", "GREATER_EQUAL", "EQUAL_EQUAL", "NOT_EQUAL"} |->
     CASE t = "PLUS"          -> "ADD"
       [] t = "MINUS"         -> "SUB"
       [] t = "MULTIPLY"      -> "MUL"
       [] t = "DIVIDE"        -> "DIV"
       [] t = "LESS_THAN"     -> "LESS_THAN"
       [] t = "GREATER_THAN"  -> "GREATER_THAN"
       [] t = "LESS_EQUAL"    -> "LESS_EQUAL"
       [] t = "GREATER_EQUAL" -> "GREATER_EQUAL"
       [] t = "EQUAL_EQUAL"   -> "EQUAL_EQUAL"
       [] t = "NOT_EQUAL"     -> "NOT_EQUAL"]

BinaryOp(op, left, right, loc) ==
  [kind |-> "BinaryOp", op |-> op, left |-> left, right |-> right, loc |-> loc]

RECURSIVE parseExpression(_, _), parseConditional(_, _), parseComparison(_, _),
          comparisonLoop(_, _, _), parseAddition(_, _), additionLoop(_, _, _),
          parseMultiplication(_, _), multiplicationLoop(_, _, _),
          parseUnary(_, _), parsePrimary(_, _), parseCall(_, _, _),
          argumentsLoop(_, _, _)

parseExpression(toks, cur) ==
  IF check(toks, cur, "IF") THEN parseConditional(toks, Parser_advance(toks, cur))
  ELSE parseComparison(toks, cur)

\* The while loop of Parser::parseAddition, expr being the operand so far.
\* A variant of the loop that takes a whole addition as right operand, making
\* + and - associate to the right.
additionRightAssoc(toks, cur, expr) ==
  LET m == Parser_match(toks, cur, {"PLUS", "MINUS"})
      op == Parser_previous(toks, m.cur)
  IN  IF ~m.hit THEN Ok(cur, expr)
      ELSE Then(parseAddition(toks, m.cur), LAMBDA right :
             Ok(right.cur, BinaryOp(binaryOps[op.type], expr, right.node, Loc(op))))

additionLoop(toks, cur, expr) ==
  LET m == Parser_match(toks, cur, {"PLUS", "MINUS"})
      op == Parser_previous(toks, m.cur)
  IN  IF ~m.hit THEN Ok(cur, expr)
      ELSE Then(parseMultiplication(toks, m.cur), LAMBDA right :
             additionLoop(toks, right.cur,
                          BinaryOp(binaryOps[op.type], expr, right.node, Loc(op))))

parseAddition(toks, cur) ==
  Then(parseMultiplication(toks, cur), LAMBDA expr :
    additionLoop(toks, expr.cur, expr.node))

\* The while loop of Parser::parseMultiplication.
multiplicationLoop(toks, cur, expr) ==
  LET m == Parser_match(toks, cur, {"MULTIPLY", "DIVIDE"})
      op == Parser_previous(toks, m.cur)
  IN  IF ~m.hit THEN Ok(cur, expr)
      ELSE Then(parseUnary(toks, m.cur), LAMBDA right :
             multiplicationLoop(toks, right.cur,
                                BinaryOp(binaryOps[op.type], expr, right.node, Loc(op))))

parseMultiplication(toks, cur) ==
  Then(parseUnary(toks, cur), LAMBDA expr :
    multiplicationLoop(toks, expr.cur, expr.node))

parseUnary(toks, cur) ==
  LET m == Parser_match(toks, cur, {"MINUS"})
      op == Parser_previous(toks, m.cur)
  IN  IF m.hit
      THEN Then(parseUnary(toks, m.cur), LAMBDA expr :
             Ok(expr.cur, [kind |-> "UnaryOp", op |-> "NEG",
                           operand |-> expr.node, loc |-> Loc(op)]))
      ELSE parsePrimary(toks, cur)

parsePrimary(toks, cur) ==
  LET c == Parser_advance(toks, cur)
      prev == Parser_previous(toks, c)
  IN  IF check(toks, cur, "STRING_LITERAL")
        THEN Ok(c, [kind |-> "StringLiteral", value |-> prev.value, loc |-> Loc(prev)])
      ELSE IF check(toks, cur, "INT_LITERAL")
        THEN Bind(stoi(prev.value), LAMBDA value :
               IF value = OutOfIntRange THEN Throw(c, "stoi")
               ELSE Ok(c, [kind |-> "IntLiteral", value |-> value, loc |-> Loc(prev)]))
      ELSE IF check(toks, cur, "FLOAT_LITERAL")
        THEN Ok(c, [kind |-> "FloatLiteral", value |-> prev.value, loc |-> Loc(prev)])
      ELSE IF check(toks, cur, "IDENTIFIER")
        THEN LET identifier == [kind |-> "Identifier", name |-> prev.value,
                                loc |-> Loc(prev)]
             IN  IF check(toks, c, "LPAREN") THEN parseCall(toks, c, identifier)
                 ELSE Ok(c, identifier)
      ELSE IF check(toks, cur, "LPAREN")
        THEN Then(parseExpression(toks, c), LAMBDA expr :
             Then(consume(toks, expr.cur, "RPAREN", "Expected ')' after expression"),
                  LAMBDA r : Ok(r.cur, expr.node)))
      ELSE Throw(cur, "Expected expression")

\* The do-while loop of Parser::parseCall, arguments being those read so far.
argumentsLoop(toks, cur, arguments) ==
  Then(parseExpression(toks, cur), LAMBDA a :
    LET m == Parser_match(toks, a.cur, {"COMMA"})
    IN  IF m.hit THEN argumentsLoop(toks, m.cur, Append(arguments, a.node))
        ELSE Ok(m.cur, Append(arguments, a.node)))

parseCall(toks, cur, ident) ==
  IF ident.kind # "Identifier" THEN Throw(cur, "Expected function name before '('")
  ELSE
  Then(consume(toks, cur, "LPAREN", "Expected '(' after function name"), LAMBDA l :
  Then(IF ~check(toks, l.cur, "RPAREN") THEN argumentsLoop(toks, l.cur, <<>>)
       ELSE Ok(l.cur, <<>>), LAMBDA arguments :
  Then(consume(toks, arguments.cur, "RPAREN", "Expected ')' after arguments"), LAMBDA r :
    Ok(r.cur, [kind |-> "FunctionCall", funcName |-> ident.name,
               args |-> arguments.node, loc |-> ident.loc]))))

\* A variant that reads the then branch as a comparison, not a full expression.
parseConditionalFlat(toks, cur) ==
  Then(parseComparison(toks, cur), LAMBDA condition :
  Then(consume(toks, condition.cur, "THEN", "Expected 'then' after if condition"),
       LAMBDA t :
  Then(parseComparison(toks, t.cur), LAMBDA thenExpr :
  Then(consume(toks, thenExpr.cur, "ELSE", "Expected 'else' after then expression"),
       LAMBDA e :
  Then(parseExpression(toks, e.cur), LAMBDA elseExpr :
    Ok(elseExpr.cur, [kind |-> "ConditionalExpression",
                      condition |-> condition.node,
                      thenExpr |-> thenExpr.node,
                      elseExpr |-> elseExpr.node,
                      loc |-> condition.node.loc]))))))

parseConditional(toks, cur) ==
  Then(parseComparison(toks, cur), LAMBDA condition :
  Then(consume(toks, condition.cur, "THEN", "Expected 'then' after if condition"),
       LAMBDA t :
  Then(parseExpression(toks, t.cur), LAMBDA thenExpr :
  Then(consume(toks, thenExpr.cur, "ELSE", "Expected 'else' after then expression"),
       LAMBDA e :
  Then(parseExpression(toks, e.cur), LAMBDA elseExpr :
    Ok(elseExpr.cur, [kind |-> "ConditionalExpression",
                      condition |-> condition.node,
                      thenExpr |-> thenExpr.node,
                      elseExpr |-> elseExpr.node,
                      loc |-> condition.node.loc]))))))

\* The while loop of Parser::parseComparison.
comparisonLoop(toks, cur, expr) ==
  LET m == Parser_match(toks, cur, {"LESS_THAN", "GREATER_THAN", "LESS_EQUAL",
                                    "GREATER_EQUAL", "EQUAL_EQUAL", "NOT_EQUAL"})
      op == Parser_previous(toks, m.cur)
  IN  IF ~m.hit THEN Ok(cur, expr)
      ELSE Then(parseAddition(toks, m.cur), LAMBDA right :
             comparisonLoop(toks, right.cur,
                            BinaryOp(binaryOps[op.type], expr, right.node, Loc(op))))

parseComparison(toks, cur) ==
  Then(parseAddition(toks, cur), LAMBDA expr :
    comparisonLoop(toks, expr.cur, expr.node))

parseFunction(toks, cur) ==
  Then(consume(toks, cur, "LET", "Expected 'let' at start of function definition"),
       LAMBDA l :
  Then(consume(toks, l.cur, "IDENTIFIER", "Expected function name after 'let'"),
       LAMBDA nameToken :
  Then(consume(toks, nameToken.cur, "COLON", "Expected ':' after function name"),
       LAMBDA c :
  Then(parseType(toks, c.cur), LAMBDA returnType :
  Then(consume(toks, returnType.cur, "EQUALS", "Expected '=' after return type"),
       LAMBDA q :
  Then(consume(toks, q.cur, "LPAREN", "Expected '(' for function parameters"),
       LAMBDA lp :
  Then(parseParameters(toks, lp.cur), LAMBDA parameters :
  Then(consume(toks, parameters.cur, "RPAREN", "Expected ')' after function parameters"),
       LAMBDA rp :
  Then(consume(toks, rp.cur, "ARROW", "Expected '->' after parameters"), LAMBDA ar :
  Then(parseExpression(toks, ar.cur), LAMBDA body :
    Ok(body.cur, [kind |-> "FunctionDef", name |-> nameToken.node.value,
                  returnType |-> returnType.node,
                  parameters |-> parameters.node,
                  body |-> body.node, loc |-> Loc(nameToken.node)])))))))))))

\* A variant that skips the lexer's error tokens as it skips comments.
RECURSIVE skipCommentsAndUnknown(_, _)
skipCommentsAndUnknown(toks, cur) ==
  IF check(toks, cur, "COMMENT") \/ check(toks, cur, "UNKNOWN")
  THEN skipCommentsAndUnknown(toks, Parser_advance(toks, cur))
  ELSE cur

RECURSIVE skipComments(_, _)
skipComments(toks, cur) ==
  IF check(toks, cur, "COMMENT") THEN skipComments(toks, Parser_advance(toks, cur))
  ELSE cur

\* A variant of the round that keeps only the function parsed last.
parseRoundKeepLast(toks, ps) ==
  Bind(skipComments(toks, ps.current), LAMBDA c :
    IF Parser_isAtEnd(toks, c)
    THEN [current |-> c, errors |-> ps.errors, functions |-> ps.functions,
          broke |-> TRUE]
    ELSE Bind(parseFunction(toks, c), LAMBDA func :
           IF func.ok
           THEN [current |-> func.cur, errors |-> ps.errors,
                 functions |-> <<func.node>>, broke |-> FALSE]
           ELSE [current |-> synchronize(toks, func.cur),
                 errors |-> Append(ps.errors, func.err),
                 functions |-> ps.functions, broke |-> FALSE]))

\* One round of the loop of Parser::parse, entered with the cursor not at the
\* end, on the parser state ps = [current, errors, functions]: the state after
\* it, and whether the round left the loop by its break.
parseRound(toks, ps) ==
  Bind(skipComments(toks, ps.current), LAMBDA c :
    IF Parser_isAtEnd(toks, c)
    THEN [current |-> c, errors |-> ps.errors, functions |-> ps.functions,
          broke |-> TRUE]
    ELSE Bind(parseFunction(toks, c), LAMBDA func :
           IF func.ok
           THEN [current |-> func.cur, errors |-> ps.errors,
                 functions |-> Append(ps.functions, func.node), broke |-> FALSE]
           ELSE [current |-> synchronize(toks, func.cur),
                 errors |-> Append(ps.errors, func.err),
                 functions |-> ps.functions, broke |-> FALSE]))

\* Parser::parse from parser state ps: the state when it returns.
RECURSIVE parseFrom(_, _)
parseFrom(toks, ps) ==
  IF Parser_isAtEnd(toks, ps.current) THEN ps
  ELSE Bind(parseRound(toks, ps), LAMBDA r :
         LET n == [current |-> r.current, errors |-> r.errors,
                   functions |-> r.functions]
         IN  IF r.broke THEN n ELSE parseFrom(toks, n))

\* The state of a Parser after construction (parser.h, the member initialisers).
FreshParser == [current |-> 0, errors |-> <<>>, functions |-> <<>>]

(***************************************************************************)
(* Specification SpecLex: Lexer::tokenize on a fresh Lexer, one nextToken  *)
(* call per step, over every source of at most MaxSrcLen characters drawn  *)
(* from LexChars.                                                          *)
(***************************************************************************)
LexChars == {"a", "1", " ", "\n", "\"", "\\", "#", "-", ">", "!", ".", "?"}

SeqsUpTo(S, n) == UNION {[1..k -> S] : k \in 0..n}

\* The parser, code generator and driver before they have done anything.
IdleParser == current = 0 /\ errors = <<>> /\ prog = <<>>
\* No module before a CodeGenerator is constructed; nothing on stdout; no exit
\* code while the driver runs.
NoModule == [funcs |-> <<>>, globals |-> <<>>]
Running == -1
IdleCodegen == module = NoModule /\ functions = <<>> /\ cgErrors = <<>> /\ genIdx = 0
\* The runtime library is not part of the compiler: its buffer is zeroed, as a
\* static array is, and nothing has called it.
BUFFER_SIZE == 255
NoCall ==
  [fn |-> "none", n |-> 0, str |-> [null |-> TRUE, chars |-> <<>>], start |-> 0,
   end |-> 0, size |-> 0, extent |-> 0, crashed |-> FALSE, calls |-> 0]
IdleRuntime ==
  /\ glob_buffer = [i \in 1..BUFFER_SIZE |-> NUL]
  /\ stdin = <<>>
  /\ called = NoCall
IdleDriver == dumpTokens = FALSE /\ codegenMade = FALSE /\ irOut = <<>>
              /\ exitCode = Running

InitLex ==
  /\ input \in SeqsUpTo(LexChars, MaxSrcLen)
  /\ position = FreshLexer.position
  /\ line = FreshLexer.line
  /\ column = FreshLexer.column
  /\ tokens = <<>>
  /\ starts = <<>>
  /\ IdleParser /\ IdleCodegen /\ IdleDriver /\ IdleRuntime
  /\ pc = "lex"

\* One round of the loop of Lexer::tokenize: nextToken, push_back; the loop
\* ends with the push of the EOF token.
LexStepNoEof ==
  /\ pc = "lex"
  /\ \E n \in {nextToken(input, [position |-> position, line |-> line,
                                  column |-> column])} :
         /\ position' = n.ls.position
         /\ line' = n.ls.line
         /\ column' = n.ls.column
         /\ tokens' = IF n.tok.type = "EOF_TOKEN" THEN tokens
                      ELSE Append(tokens, n.tok)
         /\ starts' = IF n.tok.type = "EOF_TOKEN" THEN starts
                      ELSE Append(starts, n.start)
         /\ pc' = IF n.tok.type = "EOF_TOKEN" THEN "lexed" ELSE "lex"
  /\ UNCHANGED <<input, current, errors, prog, module, functions, cgErrors,
                 genIdx, dumpTokens, codegenMade, irOut, exitCode>>
  /\ UNCHANGED rtVars

LexStep ==
  /\ pc = "lex"
  /\ \E n \in {nextToken(input, [position |-> position, line |-> line,
                                  column |-> column])} :
         /\ position' = n.ls.position
         /\ line' = n.ls.line
         /\ column' = n.ls.column
         /\ tokens' = Append(tokens, n.tok)
         /\ starts' = Append(starts, n.start)
         /\ pc' = IF n.tok.type = "EOF_TOKEN" THEN "lexed" ELSE "lex"
  /\ UNCHANGED <<input, current, errors, prog, module, functions, cgErrors,
                 genIdx, dumpTokens, codegenMade, irOut, exitCode>>
  /\ UNCHANGED rtVars

NextLex == LexStep

SpecLex == InitLex /\ [][NextLex]_vars

(***************************************************************************)
(* The 1-based line and column of the character at offset p of a buffer.   *)
(***************************************************************************)
NewlinesBefore(inp, p) == {i \in 1..p : inp[i] = "\n"}

LineOf(inp, p) == 1 + Cardinality(NewlinesBefore(inp, p))

ColOf(inp, p) ==
  LET nl == NewlinesBefore(inp, p)
      last == IF nl = {} THEN 0 ELSE CHOOSE i \in nl : \A j \in nl : j <= i
  IN  p + 1 - last

\* C3: every token other than the end-of-input sentinel carries the 1-based
\* line and column of the first character of its lexeme (for an error token,
\* of the offending character, where the scan of the token began).
C3_TokenLocations ==
  \A i \in 1..Len(tokens) :
    tokens[i].type # "EOF_TOKEN" =>
      /\ tokens[i].line = LineOf(input, starts[i])
      /\ tokens[i].column = ColOf(input, starts[i])

\* C6: tokenize on a fresh Lexer terminates: every nextToken call that does
\* not return EOF_TOKEN strictly increases the read position, which never
\* passes the end of the buffer (so at most Len(input) tokens precede the
\* end), and the vector it returns holds exactly one EOF_TOKEN, its last
\* element.
C6_EofOnceAndLast ==
  /\ position <= Len(input)
  /\ Len(tokens) <= Len(input) + 1
  /\ \A i \in 1..Len(tokens) :
       (tokens[i].type = "EOF_TOKEN") <=> (pc = "lexed" /\ i = Len(tokens))
  /\ pc = "lexed" => Len(tokens) >= 1

C6_Progress ==
  /\ pc = "lex"
  /\ pc' = "lex" => position' > position
  /\ pc' = "lexed" => position' = Len(input)

C6_TokenizeTerminates ==
  [][C6_EofOnceAndLast /\ C6_Progress /\ C6_EofOnceAndLast']_vars

C6_Witness ==
  /\ pc = "lexed"
  /\ Len(input) = MaxSrcLen
  /\ Len(tokens) >= 3
  /\ \E i \in 1..Len(tokens) : tokens[i].type = "UNKNOWN"


(***************************************************************************)
(* Specification SpecParse: Parser::parse, one round of its loop per step, *)
(* on the token vector the Parser's constructor obtains from a fresh Lexer *)
(* for each source of four families.  A source is written as a sequence of *)
(* fragments (each a sequence of characters) joined by single spaces.      *)
(***************************************************************************)
MaxBodyLen == 3

RECURSIVE Join(_)
Join(frags) ==
  IF frags = <<>> THEN <<>>
  ELSE IF Len(frags) = 1 THEN frags[1]
  ELSE frags[1] \o <<" ">> \o Join(Tail(frags))

\* let f:int=()->
HeaderNoParams ==
  <<"l","e","t"," ","f",":","i","n","t","=","(",")","-",">">>
\* let g:float=(a:int,b:float)->
HeaderTwoParams ==
  <<"l","e","t"," ","g",":","f","l","o","a","t","=","(","a",":","i","n","t",",",
    "b",":","f","l","o","a","t",")","-",">">>
\* let h:int=(a:int)   (the arrow is missing)
HeaderNoArrow ==
  <<"l","e","t"," ","h",":","i","n","t","=","(","a",":","i","n","t",")">>
\* let k:=()->         (the return type is missing)
HeaderNoType ==
  <<"l","e","t"," ","k",":","=","(",")","-",">">>

\* Every body of at most MaxBodyLen fragments over BodyFrags.
BodyFrags ==
  {<<"a">>, <<"1">>, <<"-">>, <<"*">>, <<"(">>, <<")">>, <<",">>, <<"i","f">>,
   <<"l","e","t">>, <<"?">>, <<"#","c","\n">>}

ExhaustiveSources ==
  {Join(<<HeaderNoParams>> \o b) : b \in SeqsUpTo(BodyFrags, MaxBodyLen)}

\* x op y op z and -x op y, over atoms and binary operators.
AtomFrags == {<<"a">>, <<"7">>, <<"2",".","5">>}
OpFrags == {<<"+">>, <<"-">>, <<"*">>, <<"/">>, <<"<">>, <<"=","=">>}

PrecedenceSources ==
  {Join(<<HeaderNoParams, x, o1, y, o2, z>>) :
     x \in AtomFrags, y \in AtomFrags, z \in AtomFrags, o1 \in OpFrags, o2 \in OpFrags}
  \cup {Join(<<HeaderNoParams, <<"-">>, x, o1, y>>) :
          x \in AtomFrags, y \in AtomFrags, o1 \in OpFrags}

\* Conditionals nested through their branches, without parentheses: a tree is
\* a leaf (an identifier, or the comparison x<y), or a conditional with an
\* identifier as condition and trees as branches.
Leaf(n) == [kind |-> "Identifier", name |-> <<n>>]
Conditional(c, t, e) ==
  [kind |-> "ConditionalExpression", condition |-> c, thenExpr |-> t, elseExpr |-> e]
Compare(l, r) ==
  [kind |-> "BinaryOp", op |-> "LESS_THAN", left |-> l, right |-> r]

CondLeaves == {Leaf("x"), Leaf("y"), Compare(Leaf("x"), Leaf("y"))}
CondTrees1 == {Conditional(Leaf("c"), t, e) : t \in CondLeaves, e \in CondLeaves}
CondTrees2 ==
  {Conditional(Leaf("d"), t, e) : t \in CondLeaves \cup CondTrees1,
                                  e \in CondLeaves \cup CondTrees1}
CondTrees3 ==
  {Conditional(Leaf("b"), t, e) : t \in CondTrees2, e \in {Leaf("z")}}
CondTrees == CondTrees1 \cup CondTrees2 \cup CondTrees3

RECURSIVE Unparse(_)
Unparse(t) ==
  IF t.kind = "Identifier" THEN t.name
  ELSE IF t.kind = "BinaryOp" THEN Unparse(t.left) \o <<"<">> \o Unparse(t.right)
  ELSE <<"i","f"," ">> \o Unparse(t.condition) \o <<" ","t","h","e","n"," ">>
       \o Unparse(t.thenExpr) \o <<" ","e","l","s","e"," ">> \o Unparse(t.elseExpr)

\* Each tree with the source of the definition whose body it is.
CondCases == {[src |-> Join(<<HeaderNoParams, Unparse(t)>>), tree |-> t] : t \in CondTrees}

ConditionalSources == {c.src : c \in CondCases}

\* Two or three definitions in a row, well-formed or not, with or without a
\* comment or a stray character between them.
DefFrags ==
  {HeaderNoParams \o <<"1">>,
   HeaderTwoParams \o <<"a","*","b">>,
   HeaderTwoParams \o <<"f","(",")">>,
   HeaderNoParams \o <<"9","9","9","9","9","9","9","9","9","9">>,
   HeaderNoArrow \o <<" ","a">>,
   HeaderNoType \o <<"1">>,
   HeaderNoParams}
SepFrags == {<<>>, <<"#","c","\n">>, <<"?">>, <<"!">>, <<"\"","s">>}

ProgramSources ==
  {Join(<<d1, s1, d2>>) : d1 \in DefFrags, s1 \in SepFrags, d2 \in DefFrags}
  \cup {Join(<<d1, d2, s2, d3>>) :
          d1 \in DefFrags, d2 \in DefFrags, s2 \in SepFrags, d3 \in DefFrags}

\* Sources of at most two fragments without a definition around them: the
\* empty source, a comment alone, stray tokens.
StrayFrags ==
  {<<"a">>, <<"l","e","t">>, <<"l","e","t"," ","f">>, <<"#","c","\n">>, <<"?">>,
   <<":">>, <<"1">>, <<"-",">">>}
StraySources == {Join(b) : b \in SeqsUpTo(StrayFrags, 2)}

InitParse ==
  /\ \/ input \in StraySources
     \/ input \in ExhaustiveSources
     \/ input \in PrecedenceSources
     \/ input \in ConditionalSources
     \/ input \in ProgramSources
  /\ \E t \in {tokenize(input, FreshLexer)} :
         /\ tokens = t.tokens
         /\ starts = t.starts
         /\ position = t.ls.position
         /\ line = t.ls.line
         /\ column = t.ls.column
  /\ current = FreshParser.current
  /\ errors = FreshParser.errors
  /\ prog = FreshParser.functions
  /\ IdleCodegen /\ IdleDriver /\ IdleRuntime
  /\ pc = "parse"

ParserState == [current |-> current, errors |-> errors, functions |-> prog]

\* A round of the loop of Parser::parse.
ParseRound ==
  /\ pc = "parse"
  /\ ~Parser_isAtEnd(tokens, current)
  /\ \E r \in {parseRound(tokens, ParserState)} :
         /\ current' = r.current
         /\ errors' = r.errors
         /\ prog' = r.functions
         /\ pc' = IF r.broke THEN "parsed" ELSE "parse"
  /\ UNCHANGED <<input, position, line, column, tokens, starts, module, functions,
                 cgErrors, genIdx, dumpTokens, codegenMade, irOut, exitCode>>
  /\ UNCHANGED rtVars

\* The loop of Parser::parse ends at the end of the tokens: parse returns.
ParseReturn ==
  /\ pc = "parse"
  /\ Parser_isAtEnd(tokens, current)
  /\ pc' = "parsed"
  /\ UNCHANGED <<input, position, line, column, tokens, starts, current, errors,
                 prog, module, functions, cgErrors, genIdx, dumpTokens, codegenMade,
                 irOut, exitCode>>
  /\ UNCHANGED rtVars

NextParse == ParseRound \/ ParseReturn

SpecParse == InitParse /\ [][NextParse]_vars


(***************************************************************************)
(* Properties of the parser.                                               *)
(***************************************************************************)
\* An AST node without its source locations.
RECURSIVE Shape(_)
Shape(n) ==
  CASE n.kind \in {"StringLiteral", "IntLiteral", "FloatLiteral"} ->
         [kind |-> n.kind, value |-> n.value]
    [] n.kind = "Identifier" -> [kind |-> n.kind, name |-> n.name]
    [] n.kind = "UnaryOp" ->
         [kind |-> n.kind, op |-> n.op, operand |-> Shape(n.operand)]
    [] n.kind = "BinaryOp" ->
         [kind |-> n.kind, op |-> n.op, left |-> Shape(n.left), right |-> Shape(n.right)]
    [] n.kind = "FunctionCall" ->
         [kind |-> n.kind, funcName |-> n.funcName,
          args |-> [i \in 1..Len(n.args) |-> Shape(n.args[i])]]
    [] n.kind = "ConditionalExpression" ->
         [kind |-> n.kind, condition |-> Shape(n.condition),
          thenExpr |-> Shape(n.thenExpr), elseExpr |-> Shape(n.elseExpr)]

HasUnknown == \E i \in 1..Len(tokens) : tokens[i].type = "UNKNOWN"

\* C5: a lex error does not abort lexing and always becomes a parse error:
\* when the token vector holds an UNKNOWN token, the lexer has still read the
\* whole buffer and ended the vector with EOF_TOKEN, and Parser::parse returns
\* with a non-empty error list.
C5_LexErrorBecomesParseError ==
  HasUnknown =>
    /\ position = Len(input)
    /\ tokens[Len(tokens)].type = "EOF_TOKEN"
    /\ pc = "parsed" => errors # <<>>

C5_Witness ==
  /\ pc = "parsed"
  /\ Len(prog) >= 1
  /\ \E i \in 1..Len(tokens) :
       /\ tokens[i].type = "UNKNOWN"
       /\ i + 1 < Len(tokens)
       /\ tokens[i + 1].type = "LET"

\* The indices of the LET tokens, and the k-th of them.
LetPositions == {i \in 1..Len(tokens) : tokens[i].type = "LET"}
NthLet(k) == CHOOSE i \in LetPositions : Cardinality({j \in LetPositions : j < i}) = k - 1

\* C7: when Parser::parse returns with an empty error list, the Program holds
\* exactly one FunctionDef per LET token, in source order: the k-th FunctionDef
\* is the one named by the token after the k-th LET.
C7_OneFunctionPerLet ==
  pc = "parsed" /\ errors = <<>> =>
    /\ Len(prog) = Cardinality(LetPositions)
    /\ \A k \in 1..Len(prog) :
         /\ prog[k].name = tokens[NthLet(k) + 1].value
         /\ prog[k].loc = Loc(tokens[NthLet(k) + 1])

C7_Witness ==
  /\ pc = "parsed"
  /\ errors = <<>>
  /\ Len(prog) = 3
  /\ prog[1].name # prog[2].name
  /\ \E i \in 1..Len(tokens) : tokens[i].type = "COMMENT"

\* The tokens of the body of a single definition with the header let f:int=()->
HeaderTypes ==
  <<"LET", "IDENTIFIER", "COLON", "TYPE_INT", "EQUALS", "LPAREN", "RPAREN", "ARROW">>
HasPlainHeader ==
  /\ Len(tokens) > Len(HeaderTypes)
  /\ \A i \in 1..Len(HeaderTypes) : tokens[i].type = HeaderTypes[i]
BodyTokens == SubSeq(tokens, Len(HeaderTypes) + 1, Len(tokens) - 1)

IsAtom(tok) == tok.type \in {"IDENTIFIER", "INT_LITERAL", "FLOAT_LITERAL"}
IsBinary(tok) == tok.type \in DOMAIN binaryOps
\* The rung of an operator on the precedence ladder.
Rung(tok) ==
  IF tok.type \in {"MULTIPLY", "DIVIDE"} THEN 3
  ELSE IF tok.type \in {"PLUS", "MINUS"} THEN 2
  ELSE 1
AtomShape(tok) ==
  CASE tok.type = "IDENTIFIER" -> [kind |-> "Identifier", name |-> tok.value]
    [] tok.type = "INT_LITERAL" -> [kind |-> "IntLiteral", value |-> stoi(tok.value)]
    [] tok.type = "FLOAT_LITERAL" -> [kind |-> "FloatLiteral", value |-> tok.value]
Bin(tok, l, r) ==
  [kind |-> "BinaryOp", op |-> binaryOps[tok.type], left |-> l, right |-> r]
Neg(e) == [kind |-> "UnaryOp", op |-> "NEG", operand |-> e]

\* C8: the precedence ladder comparison < addition < multiplication < unary
\* minus, binary operators left-associative: a body x o1 y o2 z over atoms
\* parses as o1(x, o2(y, z)) when o2 stands on a higher rung than o1 and as
\* o2(o1(x, y), z) otherwise, and a body -x o y parses as o(NEG(x), y).
C8_Precedence ==
  pc = "parsed" /\ HasPlainHeader =>
    LET b == BodyTokens
    IN  /\ ( /\ Len(b) = 5
             /\ IsAtom(b[1]) /\ IsBinary(b[2]) /\ IsAtom(b[3]) /\ IsBinary(b[4])
             /\ IsAtom(b[5]) )
           => /\ errors = <<>>
              /\ Len(prog) = 1
              /\ Shape(prog[1].body) =
                   IF Rung(b[4]) > Rung(b[2])
                   THEN Bin(b[2], AtomShape(b[1]),
                            Bin(b[4], AtomShape(b[3]), AtomShape(b[5])))
                   ELSE Bin(b[4], Bin(b[2], AtomShape(b[1]), AtomShape(b[3])),
                            AtomShape(b[5]))
        /\ ( /\ Len(b) = 4
             /\ b[1].type = "MINUS" /\ IsAtom(b[2]) /\ IsBinary(b[3]) /\ IsAtom(b[4]) )
           => /\ errors = <<>>
              /\ Len(prog) = 1
              /\ Shape(prog[1].body) =
                   Bin(b[3], Neg(AtomShape(b[2])), AtomShape(b[4]))

\* a + b * c, a * b + c, a - b - c and -a * b have been parsed.
C8_Witness ==
  /\ pc = "parsed"
  /\ HasPlainHeader
  /\ errors = <<>>
  /\ Len(prog) = 1
  /\ LET b == BodyTokens
     IN  /\ Len(b) = 5
         /\ b[2].type = "MINUS" /\ b[4].type = "MINUS"
         /\ prog[1].body.op = "SUB"
         /\ prog[1].body.left.kind = "BinaryOp"
         /\ prog[1].body.left.op = "SUB"

\* C9: conditionals nest through their branches, each else going with the
\* nearest unmatched then, and both branches are full expressions: the body
\* written from a tree of conditionals, without parentheses, parses to that
\* tree.
C9_ConditionalsNest ==
  pc = "parsed" =>
    \A c \in CondCases :
      c.src = input =>
        /\ errors = <<>>
        /\ Len(prog) = 1
        /\ Shape(prog[1].body) = c.tree

\* if b then if d then if c then .. else .. else .. else z has been parsed.
C9_Witness ==
  /\ pc = "parsed"
  /\ errors = <<>>
  /\ Len(prog) = 1
  /\ prog[1].body.kind = "ConditionalExpression"
  /\ prog[1].body.thenExpr.kind = "ConditionalExpression"
  /\ prog[1].body.thenExpr.thenExpr.kind = "ConditionalExpression"
  /\ prog[1].body.thenExpr.elseExpr.kind = "ConditionalExpression"
  /\ prog[1].body.elseExpr.kind = "Identifier"


(***************************************************************************)
(* The code generator (codegen.cpp).  A value is [ty, ref]: ref names a    *)
(* constant, a string global, a function, an argument or the instruction   *)
(* that computes it.  The builder state b holds the blocks of the function *)
(* under construction, in creation order, the insert block cur, the number *)
(* n of instructions created, the string globals of the module and the     *)
(* errors reported.  Pointers are opaque, so a cast of a pointer to a      *)
(* pointer type is the pointer itself.  verifyFunction and verifyModule    *)
(* only log and are left out.                                              *)
(***************************************************************************)
Value(ty, ref) == [ty |-> ty, ref |-> ref]
nullptr == Value("null", <<"null">>)
IsNull(v) == v.ty = "null"

isIntegerTy(ty) == ty \in {"i1", "i8", "i32"}
isFloatingPointTy(ty) == ty = "float"
IsConstant(v) == v.ref[1] \in {"const", "constexpr", "global", "func"}

llvmType(type) ==
  CASE type.kind = "INT"   -> "i32"
    [] type.kind = "FLOAT" -> "float"
    [] type.kind = "CHAR"  -> "i8"
    [] type.kind = "STR"   -> "ptr"
    [] type.kind = "FUNC"  -> "ptr"

\* CodeGenerator::reportError: one more line on stderr.  A message is the
\* sequence of its parts: a text, and the name appended to it if any.
reportError(b, message, loc) ==
  [b EXCEPT !.errs = Append(@, [message |-> message, loc |-> loc])]

\* What generateExpression returns: a value, and the builder state after it.
Result(val, b) == [val |-> val, b |-> b]
None(b) == Result(nullptr, b)

\* The builder inserts an instruction at the end of the insert block.
Insert(b, op, ty, operands, targets, callee) ==
  Result(Value(ty, <<"inst", b.n>>),
         [b EXCEPT !.blocks[b.cur].instrs =
                      Append(@, [id |-> b.n, op |-> op, ty |-> ty,
                                 operands |-> operands, targets |-> targets,
                                 callee |-> callee]),
                   !.n = @ + 1])

\* The builder's Create<op> of an arithmetic or comparison operation: folded
\* to a constant when every operand is one, inserted otherwise.
Create(b, op, ty, operands) ==
  IF \A i \in 1..Len(operands) : IsConstant(operands[i])
  THEN Result(Value(ty, <<"constexpr", op, operands>>), b)
  ELSE Insert(b, op, ty, operands, <<>>, <<>>)

BasicBlock(label) == [label |-> label, instrs |-> <<>>]
SetInsertPoint(b, block) == [b EXCEPT !.cur = block]

\* The block variable keeps the block the branch started in.
KeepBlock(b, block) == block

\* thenBlock = builder->GetInsertBlock(), and the same for elseBlock: the
\* block variable takes the builder's insert block.
GetInsertBlock(b, block) == b.cur

\* The instruction each BinaryOp makes of integer and of floating operands.
intOps ==
  [o \in {"ADD", "SUB", "MUL", "DIV", "LESS_THAN", "GREATER_THAN", "LESS_EQUAL",
          "GREATER_EQUAL", "EQUAL_EQUAL", "NOT_EQUAL"} |->
     CASE o = "ADD" -> "add" [] o = "SUB" -> "sub" [] o = "MUL" -> "mul"
       [] o = "DIV" -> "sdiv" [] o = "LESS_THAN" -> "icmp slt"
       [] o = "GREATER_THAN" -> "icmp sgt" [] o = "LESS_EQUAL" -> "icmp sle"
       [] o = "GREATER_EQUAL" -> "icmp sge" [] o = "EQUAL_EQUAL" -> "icmp eq"
       [] o = "NOT_EQUAL" -> "icmp ne"]
floatOps ==
  [o \in DOMAIN intOps |->
     CASE o = "ADD" -> "fadd" [] o = "SUB" -> "fsub" [] o = "MUL" -> "fmul"
       [] o = "DIV" -> "fdiv" [] o = "LESS_THAN" -> "fcmp olt"
       [] o = "GREATER_THAN" -> "fcmp ogt" [] o = "LESS_EQUAL" -> "fcmp ole"
       [] o = "GREATER_EQUAL" -> "fcmp oge" [] o = "EQUAL_EQUAL" -> "fcmp oeq"
       [] o = "NOT_EQUAL" -> "fcmp one"]
IsArithmetic(o) == o \in {"ADD", "SUB", "MUL", "DIV"}

\* Module::getFunction: the function of that name among funcs, or none.
HasFunction(funcs, name) == \E i \in 1..Len(funcs) : funcs[i].name = name
getFunction(funcs, name) == CHOOSE i \in 1..Len(funcs) : funcs[i].name = name

\* F(r) when the value of r is not null, and r otherwise.
IfValue(e, F(_)) == Bind(e, LAMBDA r : IF IsNull(r.val) THEN r ELSE F(r))

(***************************************************************************)
(* CodeGenerator::generateExpression.  env holds what the expression reads *)
(* and does not change: namedValues, the functions table, and funcs, the   *)
(* functions of the module, the one under construction included.           *)
(***************************************************************************)
RECURSIVE generateExpression(_, _, _), generateArgs(_, _, _, _)

\* for (const auto &arg : call->args): the values, or ok = FALSE at the first
\* argument without a value.
generateArgs(args, env, b, values) ==
  IF args = <<>> THEN [ok |-> TRUE, vals |-> values, b |-> b]
  ELSE Bind(generateExpression(Head(args), env, b), LAMBDA a :
         IF IsNull(a.val) THEN [ok |-> FALSE, vals |-> values, b |-> a.b]
         ELSE generateArgs(Tail(args), env, a.b, Append(values, a.val)))

generateIdentifier(expr, env, b) ==
  IF expr.name \in DOMAIN env.namedValues
    THEN Result(env.namedValues[expr.name], b)
  ELSE IF expr.name \in DOMAIN env.functions
    THEN Result(Value("ptr", <<"func", env.functions[expr.name]>>), b)
  ELSE None(reportError(b, <<"Undefined variable: ", expr.name>>, expr.loc))

\* A variant of the translation of a UnaryOp in which a NEG of an operand that
\* is neither integer nor floating is the operand.
generateUnaryOpNoOp(expr, env, b) ==
  IfValue(generateExpression(expr.operand, env, b), LAMBDA operand :
    IF isIntegerTy(operand.val.ty)
      THEN Create(operand.b, "neg", operand.val.ty, <<operand.val>>)
    ELSE IF isFloatingPointTy(operand.val.ty)
      THEN Create(operand.b, "fneg", operand.val.ty, <<operand.val>>)
    ELSE operand)

\* A NEG of an operand that is neither integer nor floating leaves the switch
\* and falls to the end of generateExpression.
generateUnaryOp(expr, env, b) ==
  IfValue(generateExpression(expr.operand, env, b), LAMBDA operand :
    IF isIntegerTy(operand.val.ty)
      THEN Create(operand.b, "neg", operand.val.ty, <<operand.val>>)
    ELSE IF isFloatingPointTy(operand.val.ty)
      THEN Create(operand.b, "fneg", operand.val.ty, <<operand.val>>)
    ELSE None(reportError(operand.b, <<"Unknown expression type">>, expr.loc)))

\* The right operand is generated whether or not the left one has a value.
\* The DIV case falls through to LESS_THAN when its two tests fail, and the
\* two tests of LESS_THAN are the same and fail too.
generateBinaryOp(expr, env, b) ==
  Bind(generateExpression(expr.left, env, b), LAMBDA left :
  Bind(generateExpression(expr.right, env, left.b), LAMBDA right :
    IF IsNull(left.val) \/ IsNull(right.val) THEN None(right.b)
    ELSE IF isIntegerTy(left.val.ty) /\ isIntegerTy(right.val.ty)
      THEN Create(right.b, intOps[expr.op],
                  IF IsArithmetic(expr.op) THEN left.val.ty ELSE "i1",
                  <<left.val, right.val>>)
    ELSE IF isFloatingPointTy(left.val.ty) /\ isFloatingPointTy(right.val.ty)
      THEN Create(right.b, floatOps[expr.op],
                  IF IsArithmetic(expr.op) THEN left.val.ty ELSE "i1",
                  <<left.val, right.val>>)
    ELSE None(reportError(right.b, <<"Unsupported binary operation">>, expr.loc))))

\* A variant of the translation of a FunctionCall without the test of the
\* number of arguments.
generateFunctionCallAnyArity(expr, env, b) ==
  IF expr.funcName \in DOMAIN env.namedValues
  THEN \* a parameter: an indirect call, taken to return int
       Bind(generateArgs(expr.args, env, b, <<>>), LAMBDA args :
         IF ~args.ok THEN None(args.b)
         ELSE Insert(args.b, "call", "i32", args.vals, <<>>,
                     env.namedValues[expr.funcName].ref))
  ELSE IF expr.funcName \notin DOMAIN env.functions
          /\ ~HasFunction(env.funcs, <<expr.funcName, 0>>)
    THEN None(reportError(b, <<"Undefined function: ", expr.funcName>>, expr.loc))
  ELSE
    LET func == IF expr.funcName \in DOMAIN env.functions
                THEN env.functions[expr.funcName]
                ELSE <<expr.funcName, 0>>
        decl == env.funcs[getFunction(env.funcs, func)]
    IN  IF FALSE
        THEN None(b)
        ELSE Bind(generateArgs(expr.args, env, b, <<>>), LAMBDA args :
               IF ~args.ok THEN None(args.b)
               ELSE Insert(args.b, "call", decl.returnType, args.vals, <<>>,
                           <<"func", func>>))

\* A variant of the translation of a FunctionCall that looks the name up in
\* the function table only.
generateFunctionCallTableOnly(expr, env, b) ==
  IF expr.funcName \in DOMAIN env.namedValues
  THEN \* a parameter: an indirect call, taken to return int
       Bind(generateArgs(expr.args, env, b, <<>>), LAMBDA args :
         IF ~args.ok THEN None(args.b)
         ELSE Insert(args.b, "call", "i32", args.vals, <<>>,
                     env.namedValues[expr.funcName].ref))
  ELSE IF expr.funcName \notin DOMAIN env.functions
    THEN None(reportError(b, <<"Undefined function: ", expr.funcName>>, expr.loc))
  ELSE
    LET func == IF expr.funcName \in DOMAIN env.functions
                THEN env.functions[expr.funcName]
                ELSE <<expr.funcName, 0>>
        decl == env.funcs[getFunction(env.funcs, func)]
    IN  IF Len(decl.paramTypes) # Len(expr.args)
        THEN None(reportError(b, <<"Incorrect number of arguments for function: ",
                                 expr.funcName>>, expr.loc))
        ELSE Bind(generateArgs(expr.args, env, b, <<>>), LAMBDA args :
               IF ~args.ok THEN None(args.b)
               ELSE Insert(args.b, "call", decl.returnType, args.vals, <<>>,
                           <<"func", func>>))

generateFunctionCall(expr, env, b) ==
  IF expr.funcName \in DOMAIN env.namedValues
  THEN \* a parameter: an indirect call, taken to return int
       Bind(generateArgs(expr.args, env, b, <<>>), LAMBDA args :
         IF ~args.ok THEN None(args.b)
         ELSE Insert(args.b, "call", "i32", args.vals, <<>>,
                     env.namedValues[expr.funcName].ref))
  ELSE IF expr.funcName \notin DOMAIN env.functions
          /\ ~HasFunction(env.funcs, <<expr.funcName, 0>>)
    THEN None(reportError(b, <<"Undefined function: ", expr.funcName>>, expr.loc))
  ELSE
    LET func == IF expr.funcName \in DOMAIN env.functions
                THEN env.functions[expr.funcName]
                ELSE <<expr.funcName, 0>>
        decl == env.funcs[getFunction(env.funcs, func)]
    IN  IF Len(decl.paramTypes) # Len(expr.args)
        THEN None(reportError(b, <<"Incorrect number of arguments for function: ",
                                 expr.funcName>>, expr.loc))
        ELSE Bind(generateArgs(expr.args, env, b, <<>>), LAMBDA args :
               IF ~args.ok THEN None(args.b)
               ELSE Insert(args.b, "call", decl.returnType, args.vals, <<>>,
                           <<"func", func>>))

\* A variant of the translation of a conditional that fills and closes the
\* else block before the then block.
generateConditionalElseFirst(expr, env, b) ==
  IfValue(generateExpression(expr.condition, env, b), LAMBDA condition :
    IF ~isIntegerTy(condition.val.ty) /\ ~isFloatingPointTy(condition.val.ty)
    THEN None(reportError(condition.b, <<"Invalid condition type for if expression">>,
                          expr.loc))
    ELSE
    Bind(Create(condition.b,
                IF isIntegerTy(condition.val.ty) THEN "icmp ne" ELSE "fcmp one",
                "i1", <<condition.val, Value(condition.val.ty, <<"const", 0>>)>>),
         LAMBDA condBool :
    Bind(Len(condBool.b.blocks), LAMBDA last :
    Bind([condBool.b EXCEPT !.blocks = @ \o <<BasicBlock("then"),
                                               BasicBlock("else"),
                                               BasicBlock("ifcont")>>],
         LAMBDA created :
    Bind(Insert(created, "br", "void", <<condBool.val>>, <<last + 1, last + 2>>,
                <<>>), LAMBDA condBr :
    IfValue(generateExpression(expr.elseExpr, env,
                               SetInsertPoint(condBr.b, last + 2)),
            LAMBDA elseValue :
    Bind(Insert(elseValue.b, "br", "void", <<>>, <<last + 3>>, <<>>),
         LAMBDA elseBr :
    Bind(GetInsertBlock(elseBr.b, last + 2), LAMBDA elseBlock :
    IfValue(generateExpression(expr.thenExpr, env,
                               SetInsertPoint(elseBr.b, last + 1)),
            LAMBDA thenValue :
    Bind(Insert(thenValue.b, "br", "void", <<>>, <<last + 3>>, <<>>),
         LAMBDA thenBr :
    Bind(GetInsertBlock(thenBr.b, last + 1), LAMBDA thenBlock :
      Insert(SetInsertPoint(thenBr.b, last + 3), "phi", thenValue.val.ty,
             <<thenValue.val, elseValue.val>>, <<thenBlock, elseBlock>>,
             <<>>))))))))))))

generateConditional(expr, env, b) ==
  IfValue(generateExpression(expr.condition, env, b), LAMBDA condition :
    IF ~isIntegerTy(condition.val.ty) /\ ~isFloatingPointTy(condition.val.ty)
    THEN None(reportError(condition.b, <<"Invalid condition type for if expression">>,
                          expr.loc))
    ELSE
    Bind(Create(condition.b,
                IF isIntegerTy(condition.val.ty) THEN "icmp ne" ELSE "fcmp one",
                "i1", <<condition.val, Value(condition.val.ty, <<"const", 0>>)>>),
         LAMBDA condBool :
    Bind(Len(condBool.b.blocks), LAMBDA last :
    Bind([condBool.b EXCEPT !.blocks = @ \o <<BasicBlock("then"),
                                               BasicBlock("else"),
                                               BasicBlock("ifcont")>>],
         LAMBDA created :
    Bind(Insert(created, "br", "void", <<condBool.val>>, <<last + 1, last + 2>>,
                <<>>), LAMBDA condBr :
    IfValue(generateExpression(expr.thenExpr, env,
                               SetInsertPoint(condBr.b, last + 1)),
            LAMBDA thenValue :
    Bind(Insert(thenValue.b, "br", "void", <<>>, <<last + 3>>, <<>>),
         LAMBDA thenBr :
    Bind(GetInsertBlock(thenBr.b, last + 1), LAMBDA thenBlock :
    IfValue(generateExpression(expr.elseExpr, env,
                               SetInsertPoint(thenBr.b, last + 2)),
            LAMBDA elseValue :
    Bind(Insert(elseValue.b, "br", "void", <<>>, <<last + 3>>, <<>>),
         LAMBDA elseBr :
    Bind(GetInsertBlock(elseBr.b, last + 2), LAMBDA elseBlock :
      Insert(SetInsertPoint(elseBr.b, last + 3), "phi", thenValue.val.ty,
             <<thenValue.val, elseValue.val>>, <<thenBlock, elseBlock>>,
             <<>>))))))))))))

generateExpression(expr, env, b) ==
  CASE expr.kind = "IntLiteral" -> Result(Value("i32", <<"const", expr.value>>), b)
    [] expr.kind = "FloatLiteral" ->
         Result(Value("float", <<"const", expr.value>>), b)
    [] expr.kind = "StringLiteral" ->
         Result(Value("ptr", <<"global", Len(b.globals) + 1>>),
                [b EXCEPT !.globals = Append(@, expr.value)])
    [] expr.kind = "Identifier" -> generateIdentifier(expr, env, b)
    [] expr.kind = "UnaryOp" -> generateUnaryOp(expr, env, b)
    [] expr.kind = "BinaryOp" -> generateBinaryOp(expr, env, b)
    [] expr.kind = "FunctionCall" -> generateFunctionCall(expr, env, b)
    [] expr.kind = "ConditionalExpression" -> generateConditional(expr, env, b)


\* The function of that base name that the module lists first as free: the
\* name itself, or the name with the least suffix not in use.
UniqueName(funcs, name) ==
  <<name, CHOOSE k \in 0..Len(funcs) :
            /\ ~HasFunction(funcs, <<name, k>>)
            /\ \A j \in 0..(k - 1) : HasFunction(funcs, <<name, j>>)>>

\* A variant of Put that keeps the entry a name has.
PutIfAbsent(table, name, function) ==
  [n \in DOMAIN table \cup {name} |->
     IF n \in DOMAIN table THEN table[n] ELSE function]

\* functions[name] = function.
Put(table, name, function) ==
  [n \in DOMAIN table \cup {name} |-> IF n = name THEN function ELSE table[n]]

\* The decimal digits a value's symbol table appends to a name in use.
UniqueSuffix == <<"1", "2", "3", "4", "5", "6", "7", "8", "9">>

\* arg.setName(name) when name is in use in the function: the name with the
\* next number of the symbol table's counter that makes it free.
RECURSIVE makeUniqueName(_, _, _)
makeUniqueName(name, names, lastUnique) ==
  IF \A i \in 1..Len(names) : names[i] # name \o <<UniqueSuffix[lastUnique + 1]>>
  THEN [name |-> name \o <<UniqueSuffix[lastUnique + 1]>>,
        lastUnique |-> lastUnique + 1]
  ELSE makeUniqueName(name, names, lastUnique + 1)

\* The loop arg.setName(func.parameters[idx++].name): the names the arguments
\* get, names being those of the arguments before parameter idx.
RECURSIVE setNames(_, _, _, _)
setNames(parameters, idx, names, lastUnique) ==
  IF idx > Len(parameters) THEN names
  ELSE IF \A i \in 1..Len(names) : names[i] # parameters[idx].name
    THEN setNames(parameters, idx + 1, Append(names, parameters[idx].name),
                  lastUnique)
  ELSE Bind(makeUniqueName(parameters[idx].name, names, lastUnique), LAMBDA u :
         setNames(parameters, idx + 1, Append(names, u.name), u.lastUnique))

\* namedValues after the loop namedValues[arg.getName()] = &arg: each
\* argument, the i-th, under the name it got.
ArgValues(func) ==
  Bind(setNames(func.parameters, 1, <<>>, 0), LAMBDA names :
    [n \in {names[i] : i \in 1..Len(names)} |->
       LET i == CHOOSE i \in 1..Len(names) : names[i] = n
       IN  Value(llvmType(func.parameters[i].type), <<"arg", i>>)])

\* llvm::Function::Create and the entry block.
NewFunction(funcs, func) ==
  [name |-> UniqueName(funcs, func.name),
   returnType |-> llvmType(func.returnType),
   paramTypes |-> [i \in 1..Len(func.parameters) |->
                     llvmType(func.parameters[i].type)],
   blocks |-> <<BasicBlock("entry")>>]

\* A variant of generateFunction that leaves a function without a return
\* value in the module.
generateFunctionNoErase(func, cg) ==
  Bind(NewFunction(cg.module.funcs, func), LAMBDA function :
  Bind(generateExpression(func.body,
                          [namedValues |-> ArgValues(func),
                           functions |-> cg.functions,
                           funcs |-> Append(cg.module.funcs, function)],
                          [blocks |-> function.blocks, cur |-> 1, n |-> 0,
                           globals |-> cg.module.globals, errs |-> cg.errs]),
       LAMBDA retVal :
    [module |-> [funcs |-> Append(cg.module.funcs,
                                  [function EXCEPT !.blocks = retVal.b.blocks]),
                 globals |-> retVal.b.globals],
     functions |-> IF IsNull(retVal.val) THEN cg.functions
                   ELSE Put(cg.functions, func.name, function.name),
     errs |-> retVal.b.errs]))

\* A variant of generateFunction that erases a function whose body has a value
\* of another type than the declared return type.
generateFunctionTyped(func, cg) ==
  Bind(NewFunction(cg.module.funcs, func), LAMBDA function :
  Bind(generateExpression(func.body,
                          [namedValues |-> ArgValues(func),
                           functions |-> cg.functions,
                           funcs |-> Append(cg.module.funcs, function)],
                          [blocks |-> function.blocks, cur |-> 1, n |-> 0,
                           globals |-> cg.module.globals, errs |-> cg.errs]),
       LAMBDA retVal :
    IF ~IsNull(retVal.val) /\ retVal.val.ty = function.returnType
    THEN Bind(Insert(retVal.b, "ret", "void", <<retVal.val>>, <<>>, <<>>),
              LAMBDA ret :
           [module |-> [funcs |-> Append(cg.module.funcs,
                                         [function EXCEPT !.blocks = ret.b.blocks]),
                        globals |-> ret.b.globals],
            functions |-> Put(cg.functions, func.name, function.name),
            errs |-> ret.b.errs])
    ELSE \* function->eraseFromParent()
         [module |-> [funcs |-> cg.module.funcs, globals |-> retVal.b.globals],
          functions |-> cg.functions,
          errs |-> retVal.b.errs]))

\* CodeGenerator::generateFunction on the generator state cg = [module,
\* functions, errs]: the state after it.
generateFunction(func, cg) ==
  Bind(NewFunction(cg.module.funcs, func), LAMBDA function :
  Bind(generateExpression(func.body,
                          [namedValues |-> ArgValues(func),
                           functions |-> cg.functions,
                           funcs |-> Append(cg.module.funcs, function)],
                          [blocks |-> function.blocks, cur |-> 1, n |-> 0,
                           globals |-> cg.module.globals, errs |-> cg.errs]),
       LAMBDA retVal :
    IF ~IsNull(retVal.val)
    THEN Bind(Insert(retVal.b, "ret", "void", <<retVal.val>>, <<>>, <<>>),
              LAMBDA ret :
           [module |-> [funcs |-> Append(cg.module.funcs,
                                         [function EXCEPT !.blocks = ret.b.blocks]),
                        globals |-> ret.b.globals],
            functions |-> Put(cg.functions, func.name, function.name),
            errs |-> ret.b.errs])
    ELSE \* function->eraseFromParent()
         [module |-> [funcs |-> cg.module.funcs, globals |-> retVal.b.globals],
          functions |-> cg.functions,
          errs |-> retVal.b.errs]))

declareBuiltinFunction(name, returnType, paramTypes) ==
  [name |-> <<name, 0>>, returnType |-> returnType, paramTypes |-> paramTypes,
   blocks |-> <<>>]

declareBuiltinFunctions ==
  <<
    declareBuiltinFunction(<<"s","t","r","_","p","r","i","n","t">>,
                           "i32", <<"ptr">>),
    declareBuiltinFunction(<<"s","t","r","_","r","e","a","d">>,
                           "ptr", <<"i32">>),
    declareBuiltinFunction(<<"s","t","r","_","l","e","n">>,
                           "i32", <<"ptr">>),
    declareBuiltinFunction(<<"s","t","r","_","a","t">>,
                           "i8", <<"ptr", "i32">>),
    declareBuiltinFunction(<<"s","t","r","_","s","u","b">>,
                           "ptr", <<"ptr", "i32", "i32">>),
    declareBuiltinFunction(<<"s","t","r","_","f","i","n","d">>,
                           "i32", <<"ptr", "ptr">>),
    declareBuiltinFunction(<<"i","n","t","_","t","o","_","s","t","r">>,
                           "ptr", <<"i32">>),
    declareBuiltinFunction(<<"s","t","r","_","t","o","_","i","n","t">>,
                           "i32", <<"ptr">>),
    declareBuiltinFunction(<<"f","l","o","a","t","_","t","o","_","s","t","r">>,
                           "ptr", <<"float">>),
    declareBuiltinFunction(<<"s","t","r","_","t","o","_","f","l","o","a","t">>,
                           "float", <<"ptr">>),
    declareBuiltinFunction(<<"s","t","r","_","c","m","p">>,
                           "i32", <<"ptr", "ptr">>)
  >>

\* The CodeGenerator after its constructor.
FreshCodegen ==
  [module |-> [funcs |-> declareBuiltinFunctions, globals |-> <<>>],
   functions |-> <<>>, errs |-> <<>>]

(***************************************************************************)
(* The driver (main.cpp): lex, parse, generate, emit.                      *)
(***************************************************************************)
MaxDefs == 3

\* let f:int=(x:int)->x+1
Inc ==
  <<"l","e","t"," ","f",":","i","n","t","=","(","x",":","i","n","t",
    ")","-",">","x","+","1">>

\* let g:int=(x:int)->f(x)*2
CallsF ==
  <<"l","e","t"," ","g",":","i","n","t","=","(","x",":","i","n","t",
    ")","-",">","f","(","x",")","*","2">>

\* let f:float=()->2.5
AgainF ==
  <<"l","e","t"," ","f",":","f","l","o","a","t","=","(",")","-",">",
    "2",".","5">>

\* let u:int=(x:int)->-(1+w)*2
UndefinedVariable ==
  <<"l","e","t"," ","u",":","i","n","t","=","(","x",":","i","n","t",
    ")","-",">","-","(","1","+","w",")","*","2">>

\* let v:int=(s:str)->str_len(s+1)
BadOperand ==
  <<"l","e","t"," ","v",":","i","n","t","=","(","s",":","s","t","r",
    ")","-",">","s","t","r","_","l","e","n","(","s","+","1",")">>

\* let k:int=(x:int)->if x then q(1) else 1
UndefinedFunction ==
  <<"l","e","t"," ","k",":","i","n","t","=","(","x",":","i","n","t",
    ")","-",">","i","f"," ","x"," ","t","h","e","n"," ","q","(","1",
    ")"," ","e","l","s","e"," ","1">>

\* let m:int=(s:str)->if s then 1 else 2
BadCondition ==
  <<"l","e","t"," ","m",":","i","n","t","=","(","s",":","s","t","r",
    ")","-",">","i","f"," ","s"," ","t","h","e","n"," ","1"," ","e",
    "l","s","e"," ","2">>

\* let n:int=(s:str)->-s
BadNegation ==
  <<"l","e","t"," ","n",":","i","n","t","=","(","s",":","s","t","r",
    ")","-",">","-","s">>

\* let h:int=(p:func,x:int)->p(x,f)
Indirect ==
  <<"l","e","t"," ","h",":","i","n","t","=","(","p",":","f","u","n",
    "c",",","x",":","i","n","t",")","-",">","p","(","x",",","f",")">>

\* let r:int=(x:int)->if x<1 then 1 else x*r(x-1)
Recursive ==
  <<"l","e","t"," ","r",":","i","n","t","=","(","x",":","i","n","t",
    ")","-",">","i","f"," ","x","<","1"," ","t","h","e","n"," ","1",
    " ","e","l","s","e"," ","x","*","r","(","x","-","1",")">>

\* let e:int=(x:int)->str_print("s")+f(1,2)
StringThenArity ==
  <<"l","e","t"," ","e",":","i","n","t","=","(","x",":","i","n","t",
    ")","-",">","s","t","r","_","p","r","i","n","t","(","\"","s","\"",
    ")","+","f","(","1",",","2",")">>

\* let c:int=(x:int)->(if x then 1 else 2)+(if (if x then 1 else x) then 3 else 4)
ManyConditionals ==
  <<"l","e","t"," ","c",":","i","n","t","=","(","x",":","i","n","t",
    ")","-",">","(","i","f"," ","x"," ","t","h","e","n"," ","1"," ",
    "e","l","s","e"," ","2",")","+","(","i","f"," ","(","i","f"," ",
    "x"," ","t","h","e","n"," ","1"," ","e","l","s","e"," ","x",")",
    " ","t","h","e","n"," ","3"," ","e","l","s","e"," ","4",")">>

\* let a:int=(x:int)
NoArrow ==
  <<"l","e","t"," ","a",":","i","n","t","=","(","x",":","i","n","t",
    ")">>

\* let b:int=()->?
BadByte ==
  <<"l","e","t"," ","b",":","i","n","t","=","(",")","-",">","?">>

\* let t:int=(b:int,c:int,d:int,x:int,y:int,z:int)->
HeaderSixParams ==
  <<"l","e","t"," ","t",":","i","n","t","=","(","b",":","i","n","t",
    ",","c",":","i","n","t",",","d",":","i","n","t",",","x",":","i",
    "n","t",",","y",":","i","n","t",",","z",":","i","n","t",")","-",
    ">">>

\* let p:int=(c:char,x:int)->c+x
CharPlusInt ==
  <<"l","e","t"," ","p",":","i","n","t","=","(","c",":","c","h","a",
    "r",",","x",":","i","n","t",")","-",">","c","+","x">>

\* let o:int=(x:int)->(x<1)*x
CompareTimesInt ==
  <<"l","e","t"," ","o",":","i","n","t","=","(","x",":","i","n","t",
    ")","-",">","(","x","<","1",")","*","x">>

\* let w:int=(x:int)->x+2.5
IntPlusFloat ==
  <<"l","e","t"," ","w",":","i","n","t","=","(","x",":","i","n","t",
    ")","-",">","x","+","2",".","5">>

\* let d:int=(x:int,x:float)->x
SameName ==
  <<"l","e","t"," ","d",":","i","n","t","=","(","x",":","i","n","t",
    ",","x",":","f","l","o","a","t",")","-",">","x">>

\* let d:int=(x:int,x:str,x:float)->x1
SameNameThrice ==
  <<"l","e","t"," ","d",":","i","n","t","=","(","x",":","i","n","t",
    ",","x",":","s","t","r",",","x",":","f","l","o","a","t",")","-",
    ">","x","1">>

\* let y:int=(x:int)->str_len("s",u)
TooManyArguments ==
  <<"l","e","t"," ","y",":","i","n","t","=","(","x",":","i","n","t",
    ")","-",">","s","t","r","_","l","e","n","(","\"","s","\"",",","u",
    ")">>

\* let z:int=(x:int)->str_at(-x)
TooFewArguments ==
  <<"l","e","t"," ","z",":","i","n","t","=","(","x",":","i","n","t",
    ")","-",">","s","t","r","_","a","t","(","-","x",")">>

\* let q:int=(x:int)->if x then 1 else 2.5
IntOrFloat ==
  <<"l","e","t"," ","q",":","i","n","t","=","(","x",":","i","n","t",
    ")","-",">","i","f"," ","x"," ","t","h","e","n"," ","1"," ","e",
    "l","s","e"," ","2",".","5">>

\* let j:int=(s:str)->1+-s
NegationInside ==
  <<"l","e","t"," ","j",":","i","n","t","=","(","s",":","s","t","r",
    ")","-",">","1","+","-","s">>

\* let f:int=(x:int)->w
ErasedF ==
  <<"l","e","t"," ","f",":","i","n","t","=","(","x",":","i","n","t",
    ")","-",">","w">>

\* let a:int=(x:int)->x<1
ComparisonAsInt ==
  <<"l","e","t"," ","a",":","i","n","t","=","(","x",":","i","n","t",
    ")","-",">","x","<","1">>

MoreDefs ==
  {ComparisonAsInt, CharPlusInt, CompareTimesInt, IntPlusFloat, SameName, SameNameThrice,
   TooManyArguments, TooFewArguments, IntOrFloat, NegationInside}

GenDefs ==
  {Inc, CallsF, AgainF, ErasedF, UndefinedVariable, BadOperand, UndefinedFunction, BadCondition, BadNegation, Indirect,
   Recursive, StringThenArity, ManyConditionals, NoArrow, BadByte}
LastDefs == {Inc, CallsF, AgainF, UndefinedVariable}

\* Programs of up to n definitions; from the third on, a definition is one of
\* LastDefs.
RECURSIVE GenPrograms(_)
GenPrograms(n) ==
  IF n = 1 THEN {<<d>> : d \in GenDefs}
  ELSE {Append(p, d) : p \in {q \in GenPrograms(n - 1) : Len(q) = n - 1},
                       d \in IF n = 2 THEN GenDefs ELSE LastDefs}
       \cup GenPrograms(n - 1)

DriverSources ==
  {Join(p) : p \in GenPrograms(MaxDefs)}
  \cup MoreDefs
  \cup {Join(<<HeaderSixParams, Unparse(t)>>) : t \in CondTrees}

Init ==
  /\ input \in DriverSources
  /\ dumpTokens \in BOOLEAN
  /\ position = FreshLexer.position
  /\ line = FreshLexer.line
  /\ column = FreshLexer.column
  /\ tokens = <<>>
  /\ starts = <<>>
  /\ IdleParser /\ IdleCodegen /\ IdleRuntime
  /\ codegenMade = FALSE
  /\ irOut = <<>>
  /\ exitCode = Running
  /\ pc = "start"

\* if (dumpTokens) lexer.dumpTokens(): tokenize on the driver's Lexer, and the
\* tokens printed.
DumpTokens ==
  /\ pc = "start"
  /\ dumpTokens
  /\ \E t \in {tokenize(input, [position |-> position, line |-> line,
                                 column |-> column])} :
         /\ position' = t.ls.position
         /\ line' = t.ls.line
         /\ column' = t.ls.column
  /\ pc' = "dumped"
  /\ UNCHANGED <<input, tokens, starts, current, errors, prog, module, functions,
                 cgErrors, genIdx, dumpTokens, codegenMade, irOut, exitCode>>
  /\ UNCHANGED rtVars

\* lge::Parser parser(lexer): the constructor calls tokenize on the driver's
\* Lexer, as it is by then.
ConstructParser ==
  /\ \/ pc = "start" /\ ~dumpTokens
     \/ pc = "dumped"
  /\ \E t \in {tokenize(input, [position |-> position, line |-> line,
                                 column |-> column])} :
         /\ tokens' = t.tokens
         /\ starts' = t.starts
         /\ position' = t.ls.position
         /\ line' = t.ls.line
         /\ column' = t.ls.column
  /\ current' = FreshParser.current
  /\ errors' = FreshParser.errors
  /\ prog' = FreshParser.functions
  /\ pc' = "parse"
  /\ UNCHANGED <<input, module, functions, cgErrors, genIdx, dumpTokens,
                 codegenMade, irOut, exitCode>>
  /\ UNCHANGED rtVars

\* if (parser.hasErrors()) { ...; return 1; }
ExitParseErrors ==
  /\ pc = "parsed"
  /\ errors # <<>>
  /\ exitCode' = 1
  /\ pc' = "exit"
  /\ UNCHANGED <<input, position, line, column, tokens, starts, current, errors,
                 prog, module, functions, cgErrors, genIdx, dumpTokens, codegenMade,
                 irOut>>
  /\ UNCHANGED rtVars

\* A variant of the driver that constructs the generator whatever the parser
\* reported.
ConstructCodegenUnchecked ==
  /\ pc = "parsed"
  /\ codegenMade' = TRUE
  /\ module' = FreshCodegen.module
  /\ functions' = FreshCodegen.functions
  /\ cgErrors' = FreshCodegen.errs
  /\ genIdx' = 0
  /\ pc' = "generate"
  /\ UNCHANGED <<input, position, line, column, tokens, starts, current, errors,
                 prog, dumpTokens, irOut, exitCode>>
  /\ UNCHANGED rtVars

\* lge::CodeGenerator codegen, reached when the parser has no errors.
ConstructCodegen ==
  /\ pc = "parsed"
  /\ errors = <<>>
  /\ codegenMade' = TRUE
  /\ module' = FreshCodegen.module
  /\ functions' = FreshCodegen.functions
  /\ cgErrors' = FreshCodegen.errs
  /\ genIdx' = 0
  /\ pc' = "generate"
  /\ UNCHANGED <<input, position, line, column, tokens, starts, current, errors,
                 prog, dumpTokens, irOut, exitCode>>
  /\ UNCHANGED rtVars

\* A round of the loop of CodeGenerator::generate.
GenerateFunction ==
  /\ pc = "generate"
  /\ genIdx < Len(prog)
  /\ \E cg \in {generateFunction(prog[genIdx + 1],
                                 [module |-> module, functions |-> functions,
                                  errs |-> cgErrors])} :
         /\ module' = cg.module
         /\ functions' = cg.functions
         /\ cgErrors' = cg.errs
  /\ genIdx' = genIdx + 1
  /\ UNCHANGED <<input, position, line, column, tokens, starts, current, errors,
                 prog, dumpTokens, codegenMade, irOut, exitCode, pc>>
  /\ UNCHANGED rtVars

\* The loop of CodeGenerator::generate ends; verifyModule logs; generate returns.
GenerateReturn ==
  /\ pc = "generate"
  /\ genIdx = Len(prog)
  /\ pc' = "generated"
  /\ UNCHANGED <<input, position, line, column, tokens, starts, current, errors,
                 prog, module, functions, cgErrors, genIdx, dumpTokens, codegenMade,
                 irOut, exitCode>>
  /\ UNCHANGED rtVars

\* codegen.emitIR(); return 0.
EmitIR ==
  /\ pc = "generated"
  /\ irOut' = <<module>>
  /\ exitCode' = 0
  /\ pc' = "exit"
  /\ UNCHANGED <<input, position, line, column, tokens, starts, current, errors,
                 prog, module, functions, cgErrors, genIdx, dumpTokens, codegenMade>>
  /\ UNCHANGED rtVars

Next ==
  \/ DumpTokens
  \/ ConstructParser
  \/ ParseRound
  \/ ParseReturn
  \/ ExitParseErrors
  \/ ConstructCodegen
  \/ GenerateFunction
  \/ GenerateReturn
  \/ EmitIR

Spec == Init /\ [][Next]_vars

(***************************************************************************)
(* Properties of the driver and of the code generator.                     *)
(***************************************************************************)
\* C1: with --dump-tokens, compilation continues as without the flag: the
\* tokens the Parser obtains from Lexer::tokenize are the tokens it obtains
\* from a fresh Lexer on the same source.
C1_DumpTokensKeepsTokens ==
  pc \notin {"start", "dumped"} => tokens = tokenize(input, FreshLexer).tokens

\* C2: a parse that ends with errors makes the driver exit with code 1, with no
\* code generator constructed and no IR written; a code generator and IR exist
\* only after a parse without errors.
C2_Inv ==
  /\ errors # <<>> =>
       /\ ~codegenMade
       /\ module = NoModule
       /\ irOut = <<>>
       /\ exitCode \in {Running, 1}
       /\ pc = "exit" => exitCode = 1
  /\ (codegenMade \/ irOut # <<>> \/ module # NoModule) =>
       /\ errors = <<>>
       /\ pc \in {"generate", "generated", "exit"}
C2_Step ==
  pc = "parsed" /\ errors # <<>> => pc' = "exit" /\ exitCode' = 1
C2_NoCodegenAfterParseErrors == [][C2_Inv /\ C2_Step /\ C2_Inv']_vars

C2_Witness ==
  /\ pc = "exit"
  /\ exitCode = 1
  /\ errors # <<>>
  /\ Len(prog) >= 2
  /\ ~codegenMade

\* C4: a function whose body reports a codegen error is erased from the module
\* and not entered in the function table, whatever encloses the expression in
\* error; the functions generated before stay, generation goes on with the next
\* function, and the driver writes the IR and exits with code 0.
C4_Round ==
  pc = "generate" /\ genIdx' = genIdx + 1 =>
    /\ pc' = "generate"
    /\ Len(cgErrors') > Len(cgErrors) =>
         /\ module'.funcs = module.funcs
         /\ functions' = functions
    /\ Len(cgErrors') = Len(cgErrors) =>
         /\ Len(module'.funcs) = Len(module.funcs) + 1
         /\ SubSeq(module'.funcs, 1, Len(module.funcs)) = module.funcs
         /\ module'.funcs[Len(module'.funcs)].name[1] = prog[genIdx'].name
         /\ prog[genIdx'].name \in DOMAIN functions'
         /\ functions'[prog[genIdx'].name] = module'.funcs[Len(module'.funcs)].name
C4_Return ==
  /\ pc = "generate" /\ pc' = "generated" => genIdx = Len(prog)
  /\ pc = "generated" => pc' = "exit" /\ irOut' = <<module>> /\ exitCode' = 0
C4_ErrorErasesFunction == [][C4_Round /\ C4_Return]_vars

\* Of three functions the second, in error under an enclosing operator, is
\* gone; the first and the third are in the IR written.
C4_Witness ==
  /\ pc = "exit"
  /\ exitCode = 0
  /\ Len(prog) = 3
  /\ prog[2].body.kind = "BinaryOp"
  /\ cgErrors # <<>>
  /\ irOut = <<module>>
  /\ Len(module.funcs) = Len(declareBuiltinFunctions) + 2
  /\ module.funcs[Len(module.funcs) - 1].name[1] = prog[1].name
  /\ module.funcs[Len(module.funcs)].name[1] = prog[3].name
  /\ ~HasFunction(module.funcs, <<prog[2].name, 0>>)

\* The number of conditional expressions in an expression.
RECURSIVE NumConditionals(_), NumConditionalsIn(_)
NumConditionalsIn(args) ==
  IF args = <<>> THEN 0
  ELSE NumConditionals(Head(args)) + NumConditionalsIn(Tail(args))
NumConditionals(e) ==
  CASE e.kind = "UnaryOp" -> NumConditionals(e.operand)
    [] e.kind = "BinaryOp" -> NumConditionals(e.left) + NumConditionals(e.right)
    [] e.kind = "FunctionCall" -> NumConditionalsIn(e.args)
    [] e.kind = "ConditionalExpression" ->
         1 + NumConditionals(e.condition) + NumConditionals(e.thenExpr)
           + NumConditionals(e.elseExpr)
    [] OTHER -> 0

\* The phi instructions of a function, as <<block, index in the block>>.
Phis(f) ==
  UNION {{<<k, i>> : i \in {i \in 1..Len(f.blocks[k].instrs) :
                                f.blocks[k].instrs[i].op = "phi"}} :
         k \in 1..Len(f.blocks)}
MergeBlocks(f) == {k \in 1..Len(f.blocks) : f.blocks[k].label = "ifcont"}
\* The blocks that end with a branch to block k.
Predecessors(f, k) ==
  {j \in 1..Len(f.blocks) :
     /\ f.blocks[j].instrs # <<>>
     /\ LET last == f.blocks[j].instrs[Len(f.blocks[j].instrs)]
        IN  last.op = "br" /\ \E t \in 1..Len(last.targets) : last.targets[t] = k}
\* Block j ends with an unconditional branch to block k.
BranchesTo(f, j, k) ==
  /\ f.blocks[j].instrs # <<>>
  /\ LET last == f.blocks[j].instrs[Len(f.blocks[j].instrs)]
     IN  last.op = "br" /\ last.operands = <<>> /\ last.targets = <<k>>
\* Value v, when an instruction computes it, is computed in block j.
ComputedIn(f, v, j) ==
  v.ref[1] = "inst" =>
    \E i \in 1..Len(f.blocks[j].instrs) : f.blocks[j].instrs[i].id = v.ref[2]

\* Function f, generated from body: one merge block per conditional, created
\* after its then and else blocks, and in it one phi, first, with two incoming
\* edges; the block of the first edge is the then block or the merge block of a
\* conditional nested in the then branch, the block of the second the else
\* block or the merge block of a conditional nested in the else branch; each
\* of the two ends with a branch to the merge block, nothing else branches to
\* it, and each incoming value is computed in the block of its edge.
PhiPerConditional(f, body) ==
  /\ Cardinality(MergeBlocks(f)) = NumConditionals(body)
  /\ Phis(f) = {<<k, 1>> : k \in MergeBlocks(f)}
  /\ \A k \in MergeBlocks(f) :
       LET phi == f.blocks[k].instrs[1]
       IN  /\ k > 2
           /\ f.blocks[k - 2].label = "then"
           /\ f.blocks[k - 1].label = "else"
           /\ Len(phi.operands) = 2
           /\ Len(phi.targets) = 2
           /\ phi.targets[1] \in {k - 2} \cup {m \in MergeBlocks(f) : m > k}
           /\ phi.targets[2] \in
                {k - 1} \cup {m \in MergeBlocks(f) : m > phi.targets[1]}
           /\ phi.targets[2] # phi.targets[1]
           /\ \A j \in 1..2 :
                /\ BranchesTo(f, phi.targets[j], k)
                /\ ComputedIn(f, phi.operands[j], phi.targets[j])
           /\ Predecessors(f, k) = {phi.targets[1], phi.targets[2]}

\* C10: every function that codegen translates has, for each conditional of
\* its body, exactly one phi, in the conditional's merge block, with the two
\* incoming edges (then value, block current at the end of the then branch) and
\* (else value, block current at the end of the else branch), each of these
\* blocks ending with a branch to the merge block.
C10_Round ==
  pc = "generate" /\ Len(module'.funcs) > Len(module.funcs) =>
    PhiPerConditional(module'.funcs[Len(module'.funcs)], prog[genIdx'].body)
C10_OnePhiPerConditional == [][C10_Round]_vars

\* A function with conditionals nested in both branches of a conditional nested
\* in a then branch is in the module.
C10_Witness ==
  \E n \in 1..Len(module.funcs) :
    LET f == module.funcs[n]
    IN  /\ Cardinality(MergeBlocks(f)) >= 4
        /\ \E k \in MergeBlocks(f) :
             /\ f.blocks[k].instrs[1].targets[1] # k - 2
             /\ f.blocks[k].instrs[1].targets[2] # k - 1
             /\ f.blocks[k].instrs[1].operands[1].ref[1] = "inst"

\* The instructions of the functions of the module.
Instructions ==
  UNION {UNION {{f.blocks[k].instrs[i] : i \in 1..Len(f.blocks[k].instrs)} :
                k \in 1..Len(f.blocks)} :
         f \in {module.funcs[n] : n \in 1..Len(module.funcs)}}
BinaryInstructions ==
  {intOps[o] : o \in DOMAIN intOps} \cup {floatOps[o] : o \in DOMAIN floatOps}

\* C11: a BinaryOp whose operand values have different IR types emits no
\* arithmetic or comparison instruction (it reports "Unsupported binary
\* operation" and yields no value): no such instruction of the module has
\* operands of two types.
C11_NoMixedOperands ==
  \A inst \in Instructions :
    inst.op \in BinaryInstructions /\ Len(inst.operands) = 2 =>
      inst.operands[1].ty = inst.operands[2].ty

\* C20: the then value and the else value of every phi have the type of the
\* phi.
C20_PhiOfOneType ==
  \A inst \in Instructions :
    inst.op = "phi" =>
      /\ inst.operands[1].ty = inst.ty
      /\ inst.operands[2].ty = inst.ty

(***************************************************************************)
(* More properties of the parser.                                          *)
(***************************************************************************)
IsComment(tok) == tok.type = "COMMENT"
NotComment(tok) == ~IsComment(tok)

C13_ErrorsCarryLocation ==
  \A i \in 1..Len(errors) : errors[i].located

\* C16: Parser::synchronize, called with the cursor where a parse function
\* threw, leaves the cursor at least one token further, unless it was at the
\* end, and at a LET or at the EOF token; and the token stream holds no NEWLINE
\* token, so the exit on a previous NEWLINE is not taken.
C16_NoNewline == \A i \in 1..Len(tokens) : tokens[i].type # "NEWLINE"
C16_Round ==
  pc = "parse" /\ Len(errors') > Len(errors) =>
    \E thrown \in {parseFunction(tokens, skipComments(tokens, current)).cur} :
        /\ current' > thrown \/ Parser_isAtEnd(tokens, thrown)
        /\ current' >= thrown
        /\ Parser_peek(tokens, current').type \in {"LET", "EOF_TOKEN"}
        /\ \A i \in (thrown + 2)..current' : tokens[i].type # "LET"
C16_SynchronizeStopsAtLet == [][C16_NoNewline /\ C16_Round]_vars

\* After an error located in a definition, the next definition was parsed; and
\* synchronize was once called with the cursor at a LET, which it passed.
C16_Witness ==
  /\ pc = "parsed"
  /\ Len(errors) >= 2
  /\ errors[1].located
  /\ Len(prog) >= 1
  /\ prog[1].loc.column > errors[1].column
  /\ \E i \in 1..Len(errors) : errors[i].text = "Expected expression"

(***************************************************************************)
(* The function table.                                                     *)
(***************************************************************************)
\* The positions in the module of the functions generated from the source, and
\* of those generated from definitions of the name n.
SourceFunctions == (Len(declareBuiltinFunctions) + 1)..Len(module.funcs)
DefinitionsOf(n) == {i \in SourceFunctions : module.funcs[i].name[1] = n}
Least(S) == CHOOSE i \in S : \A j \in S : i <= j
Greatest(S) == CHOOSE i \in S : \A j \in S : i >= j
InstructionsOf(f) ==
  UNION {{f.blocks[k].instrs[i] : i \in 1..Len(f.blocks[k].instrs)} :
         k \in 1..Len(f.blocks)}
\* The functions an instruction calls directly or takes the address of.
FunctionsReferredTo(inst) ==
  (IF inst.op = "call" /\ Len(inst.callee) = 2 /\ inst.callee[1] = "func"
   THEN {inst.callee[2]} ELSE {})
  \cup {inst.operands[i].ref[2] :
          i \in {i \in 1..Len(inst.operands) : inst.operands[i].ref[1] = "func"}}

\* C14 as stated: when two definitions of a name were both generated, the
\* function table entry of the name, and every direct call or reference to the
\* name in a function generated after them, is the function of the first.
C14_FirstDefinitionWins ==
  \A n \in DOMAIN functions :
    Cardinality(DefinitionsOf(n)) >= 2 =>
      /\ functions[n] = module.funcs[Least(DefinitionsOf(n))].name
      /\ \A j \in SourceFunctions : \A inst \in InstructionsOf(module.funcs[j]) :
           \A h \in FunctionsReferredTo(inst) :
             h[1] = n /\ (\A i \in DefinitionsOf(n) : i < j) =>
               h = module.funcs[Least(DefinitionsOf(n))].name

\* C14: the function table entry of a name is the function of the last
\* definition of that name that was generated, and every direct call or
\* reference to the name in a function refers to the function of the last
\* definition of the name that was generated before that function.
C14_LastDefinitionWins ==
  /\ \A n \in DOMAIN functions :
       /\ DefinitionsOf(n) # {}
       /\ functions[n] = module.funcs[Greatest(DefinitionsOf(n))].name
  /\ \A j \in SourceFunctions : \A inst \in InstructionsOf(module.funcs[j]) :
       \A h \in FunctionsReferredTo(inst) :
         \E earlier \in {{i \in DefinitionsOf(h[1]) : i < j}} :
           earlier # {} => h = module.funcs[Greatest(earlier)].name

\* Two definitions of a name were generated, and a later function calls the
\* second.
C14_Witness ==
  \E n \in DOMAIN functions :
    /\ Cardinality(DefinitionsOf(n)) = 2
    /\ \E j \in SourceFunctions : \E inst \in InstructionsOf(module.funcs[j]) :
         /\ \A i \in DefinitionsOf(n) : i < j
         /\ inst.op = "call"
         /\ inst.callee = <<"func", module.funcs[Greatest(DefinitionsOf(n))].name>>
         /\ inst.callee # <<"func", module.funcs[Least(DefinitionsOf(n))].name>>

(***************************************************************************)
(* The order of the translation of a conditional.  The blocks of a function*)
(* are listed in the order of their creation, and the id of an instruction *)
(* is its place in the order of insertion.                                 *)
(***************************************************************************)
LastOf(block) == block.instrs[Len(block.instrs)]
IdsIn(block) == {block.instrs[i].id : i \in 1..Len(block.instrs)}

\* What the order of a conditional has in any case: the merge block k of f
\* holds a phi first; the block the then branch was closed in and the block the
\* else branch was closed in each end with the branch to k; the then block was
\* filled after the conditional branch, the else block after the then branch was
\* closed, and the merge block after the else branch was closed.
FilledInOrder(f, k) ==
  /\ k > 2
  /\ f.blocks[k].instrs # <<>>
  /\ f.blocks[k - 2].instrs # <<>>
  /\ f.blocks[k - 1].instrs # <<>>
  /\ \E phi \in {f.blocks[k].instrs[1]} :
       /\ phi.op = "phi"
       /\ Len(phi.targets) = 2
       /\ BranchesTo(f, phi.targets[1], k)
       /\ BranchesTo(f, phi.targets[2], k)
       /\ \E condBr \in InstructionsOf(f) :
            /\ condBr.op = "br"
            /\ condBr.targets = <<k - 2, k - 1>>
            /\ \A i \in IdsIn(f.blocks[k - 2]) : condBr.id < i
       /\ \A i \in IdsIn(f.blocks[k - 2]) : i <= LastOf(f.blocks[phi.targets[1]]).id
       /\ \A i \in IdsIn(f.blocks[k - 1]) :
            /\ LastOf(f.blocks[phi.targets[1]]).id < i
            /\ i <= LastOf(f.blocks[phi.targets[2]]).id
       /\ \A i \in IdsIn(f.blocks[k]) : LastOf(f.blocks[phi.targets[2]]).id < i

\* C15 as stated: for every conditional, the then block is created, filled and
\* closed before the else block is created (the block the then branch was
\* closed in is older than the else block), then the else block is filled and
\* closed, and after that the merge block is filled.
C15_ThenClosedBeforeElseCreated ==
  \A n \in SourceFunctions : \A k \in MergeBlocks(module.funcs[n]) :
    /\ FilledInOrder(module.funcs[n], k)
    /\ module.funcs[n].blocks[k].instrs[1].targets[1] < k - 1

\* C15: for every conditional, the then block, the else block and the merge
\* block are created together, in that order, before any of them is filled (a
\* block created while a branch is filled is younger than all three); then the
\* then block is filled and closed, then the else block is filled and closed,
\* and after that the merge block is filled.
C15_CreatedTogetherThenFilled ==
  \A n \in SourceFunctions : \A k \in MergeBlocks(module.funcs[n]) :
    /\ FilledInOrder(module.funcs[n], k)
    /\ module.funcs[n].blocks[k - 2].label = "then"
    /\ module.funcs[n].blocks[k - 1].label = "else"
    /\ \E phi \in {module.funcs[n].blocks[k].instrs[1]} :
         /\ phi.targets[1] = k - 2 \/ phi.targets[1] > k
         /\ phi.targets[2] = k - 1 \/ phi.targets[2] > phi.targets[1]

\* A conditional whose then branch holds a conditional, and whose else branch
\* computes a value, is in the module: its then branch was closed in a block
\* younger than its else block.
C15_Witness ==
  \E n \in SourceFunctions : \E k \in MergeBlocks(module.funcs[n]) :
    /\ module.funcs[n].blocks[k].instrs[1].targets[1] > k
    /\ Len(module.funcs[n].blocks[k - 1].instrs) > 1

(***************************************************************************)
(* NEG of an operand that is not a number.                                 *)
(***************************************************************************)
\* expr is the NEG of a parameter of func whose IR type is a pointer.
IsNegOfPointer(expr, func) ==
  /\ expr.kind = "UnaryOp"
  /\ expr.operand.kind = "Identifier"
  /\ \E i \in 1..Len(func.parameters) : func.parameters[i].name = expr.operand.name
  /\ \A i \in 1..Len(func.parameters) :
       func.parameters[i].name = expr.operand.name =>
         llvmType(func.parameters[i].type) = "ptr"
\* The NEGs of a pointer that the body of func is, or adds to a literal.
NegsOfPointer(func) ==
  {e \in {func.body} \cup
         (IF func.body.kind = "BinaryOp" /\ func.body.left.kind = "IntLiteral"
          THEN {func.body.right} ELSE {}) : IsNegOfPointer(e, func)}

\* C17 as stated: the NEG of an operand that is neither integer nor floating
\* is an unreported no-op: generating a function whose body is one reports no
\* error, and the function stays in the module.
C17_Unreported ==
  pc = "generate" /\ genIdx' = genIdx + 1 /\ NegsOfPointer(prog[genIdx']) # {} =>
    /\ cgErrors' = cgErrors
    /\ Len(module'.funcs) = Len(module.funcs) + 1
C17_Reported ==
  pc = "generate" /\ genIdx' = genIdx + 1 =>
    \A e \in NegsOfPointer(prog[genIdx']) :
      /\ cgErrors' = Append(cgErrors, [message |-> <<"Unknown expression type">>,
                                       loc |-> e.loc])
      /\ module' = module
      /\ functions' = functions
ParameterNames(func) == {func.parameters[i].name : i \in 1..Len(func.parameters)}
\* The last parameter of func with name n.
LastNamed(func, n) ==
  Greatest({i \in 1..Len(func.parameters) : func.parameters[i].name = n})
HasParametersOfOneName(func) ==
  Cardinality(ParameterNames(func)) < Len(func.parameters)

\* C18: a function with two parameters of one name parses without error; the
\* keys of the name table of its generation are source parameter names; and
\* when its body is an Identifier with the name of parameters, the function is
\* generated and returns the argument of the last parameter of that name.
C18_Round ==
  /\ pc = "generate" /\ (\E i \in 1..Len(prog) : HasParametersOfOneName(prog[i]))
       => errors = <<>>
  /\ pc = "generate" /\ genIdx' = genIdx + 1 =>
       \E func \in {prog[genIdx']} :
         /\ DOMAIN ArgValues(func) \subseteq ParameterNames(func)
         /\ func.body.kind = "Identifier"
            /\ func.body.name \in ParameterNames(func) =>
              /\ Len(module'.funcs) = Len(module.funcs) + 1
              /\ \E ret \in {LastOf(module'.funcs[Len(module'.funcs)].blocks[1])} :
                   /\ ret.op = "ret"
                   /\ ret.operands =
                        <<Value(llvmType(func.parameters[
                                           LastNamed(func, func.body.name)].type),
                                <<"arg", LastNamed(func, func.body.name)>>)>>
C18_LastParameterWins == [][C18_Round]_vars

(***************************************************************************)
(* The number of arguments of a direct call.                               *)
(***************************************************************************)
\* The function a FunctionCall of func names, among the functions of the
\* module and func's own: the entry of the function table, or the function of
\* that name in the module.
CalleeOf(call, func) ==
  IF call.funcName \in DOMAIN functions THEN functions[call.funcName]
  ELSE <<call.funcName, 0>>
FunctionsWith(func) == Append(module.funcs, NewFunction(module.funcs, func))
\* call, in func, is a direct call of a declared function with a number of
\* arguments that is not the number of its parameters.
IsCallOfWrongArity(call, func) ==
  /\ call.kind = "FunctionCall"
  /\ call.funcName \notin ParameterNames(func)
  /\ HasFunction(FunctionsWith(func), CalleeOf(call, func))
  /\ Len(FunctionsWith(func)[getFunction(FunctionsWith(func),
                                         CalleeOf(call, func))].paramTypes)
       # Len(call.args)

\* Every direct call instruction of the module passes as many arguments as its
\* callee declares parameters.
C19_Inv ==
  \A n \in 1..Len(module.funcs) : \A inst \in InstructionsOf(module.funcs[n]) :
    inst.op = "call" /\ Len(inst.callee) = 2 /\ inst.callee[1] = "func" =>
      /\ HasFunction(module.funcs, inst.callee[2])
      /\ Len(inst.operands) =
           Len(module.funcs[getFunction(module.funcs, inst.callee[2])].paramTypes)
\* Generating a function whose body is a direct call with a wrong number of
\* arguments, or adds one to a value, reports that and nothing after it, and
\* the function is erased; when the call is the body, no argument was
\* evaluated: no other error, and no string of an argument in the module.
C19_Round ==
  pc = "generate" /\ genIdx' = genIdx + 1 =>
    \E func \in {prog[genIdx']} :
      /\ IsCallOfWrongArity(func.body, func) =>
           /\ cgErrors' =
                Append(cgErrors,
                       [message |-> <<"Incorrect number of arguments for function: ",
                                      func.body.funcName>>,
                        loc |-> func.body.loc])
           /\ module' = module
           /\ functions' = functions
      /\ func.body.kind = "BinaryOp" /\ IsCallOfWrongArity(func.body.right, func) =>
           /\ cgErrors' # <<>>
           /\ cgErrors'[Len(cgErrors')] =
                [message |-> <<"Incorrect number of arguments for function: ",
                               func.body.right.funcName>>,
                 loc |-> func.body.right.loc]
           /\ module'.funcs = module.funcs
           /\ functions' = functions

\* C19: a direct call of a user function or a built-in with a number of
\* arguments that is not the callee's number of parameters reports "Incorrect
\* number of arguments for function: <name>", evaluates no argument, emits no
\* call and yields no value; and every direct call instruction of the module
\* passes as many arguments as its callee declares.
C19_ArityEnforced == [][C19_Inv /\ C19_Round /\ C19_Inv']_vars

\* A call of a built-in of one parameter with two arguments, a string and an
\* undefined name, was generated: one error, no string in the module, no
\* function.
C19_Witness ==
  /\ pc = "generate"
  /\ genIdx = 1
  /\ prog[1].body.kind = "FunctionCall"
  /\ Len(prog[1].body.args) = 2
  /\ prog[1].body.args[1].kind = "StringLiteral"
  /\ cgErrors = <<[message |-> <<"Incorrect number of arguments for function: ",
                                 prog[1].body.funcName>>,
                   loc |-> prog[1].body.loc]>>
  /\ module.globals = <<>>
  /\ Len(module.funcs) = Len(declareBuiltinFunctions)

(***************************************************************************)
(* The runtime library, lge_runtime.c.  glob_buffer[i] of the C code is    *)
(* glob_buffer[i + 1] here.  A write past the end of glob_buffer is        *)
(* undefined: the call is recorded with the extent of what it wrote, and   *)
(* the program goes on or crashes.                                         *)
(***************************************************************************)
MaxCalls == 2
MaxLine == 300

INT_MAX == 2147483647
INT_MIN == -INT_MAX - 1
MIN(a, b) == IF a < b THEN a ELSE b

\* buf[i] = c for the 0-based index i, when i is inside the buffer.
Store(buf, i, c) == IF i < BUFFER_SIZE THEN [buf EXCEPT ![i + 1] = c] ELSE buf

\* strlen of the buffer: the offset of its first NUL.
strlen(buf) ==
  IF \E i \in 1..Len(buf) : buf[i] = NUL
  THEN (CHOOSE i \in 1..Len(buf) :
          buf[i] = NUL /\ \A j \in 1..(i - 1) : buf[j] # NUL) - 1
  ELSE Len(buf)

\* A variant of the size str_read computes, without the clamp to the buffer.
fgetsSizeUnclamped(n) == IF n = INT_MAX THEN {INT_MIN} ELSE {n + 1}

\* n = MIN(BUFFER_SIZE, n + 1).  n + 1 overflows for INT_MAX, which is
\* undefined: the sum wraps to INT_MIN, or is taken to exceed BUFFER_SIZE.
fgetsSize(n) ==
  IF n = INT_MAX THEN {INT_MIN, BUFFER_SIZE} ELSE {MIN(BUFFER_SIZE, n + 1)}

\* The number of bytes fgets takes from in for a size greater than one: up to
\* size - 1, up to and with the first newline, up to the end of the input.
fgetsCount(size, in) ==
  MIN(size - 1,
      IF \E i \in 1..Len(in) : in[i] = "\n"
      THEN CHOOSE i \in 1..Len(in) :
             in[i] = "\n" /\ \A j \in 1..(i - 1) : in[j] # "\n"
      ELSE Len(in))

\* fgets(buf, size, stdin): NULL and nothing written for a size below one or at
\* the end of the input; the bytes taken and a NUL after them otherwise.
fgets(buf, size, in) ==
  IF size <= 0 THEN [buf |-> buf, in |-> in, null |-> TRUE, extent |-> 0]
  ELSE IF size = 1
    THEN [buf |-> Store(buf, 0, NUL), in |-> in, null |-> FALSE, extent |-> 1]
  ELSE Bind(fgetsCount(size, in), LAMBDA k :
    IF k = 0 THEN [buf |-> buf, in |-> in, null |-> TRUE, extent |-> 0]
    ELSE [buf |-> [i \in 1..BUFFER_SIZE |->
                     IF i <= k THEN in[i] ELSE IF i = k + 1 THEN NUL ELSE buf[i]],
          in |-> SubSeq(in, k + 1, Len(in)),
          null |-> FALSE,
          extent |-> k + 1])

\* str_read with the size n that line 25 computed.
str_read(n, buf, in) ==
  Bind(fgets(Store(buf, 0, NUL), n, in), LAMBDA r :
    IF r.null THEN [r EXCEPT !.extent = 1]
    ELSE Bind(strlen(r.buf), LAMBDA len :
      IF len > 0 /\ r.buf[len] = "\n"
      THEN [r EXCEPT !.buf = Store(r.buf, len - 1, NUL)]
      ELSE r))

\* strncpy(buf, src, n): n bytes, those of src and NULs after its end.
strncpy(buf, src, n) ==
  [i \in 1..BUFFER_SIZE |->
     IF i > n THEN buf[i] ELSE IF i <= Len(src) THEN src[i] ELSE NUL]

str_sub(str, start, end, buf) ==
  Bind(Store(buf, 0, NUL), LAMBDA empty :
    IF str.null THEN [buf |-> empty, extent |-> 1]
    ELSE Bind(Len(str.chars), LAMBDA len :
      IF start < 0 \/ end < start \/ start >= len
      THEN [buf |-> empty, extent |-> 1]
      ELSE Bind((IF end > len THEN len ELSE end) - start, LAMBDA sublen :
        [buf |-> Store(strncpy(empty, SubSeq(str.chars, start + 1, len), sublen),
                       sublen, NUL),
         extent |-> sublen + 1])))

\* What a run does after a call that wrote extent bytes from the start of
\* glob_buffer: it goes on, or, the write having left the buffer, crashes.
Crashes(extent) == IF extent > BUFFER_SIZE THEN BOOLEAN ELSE {FALSE}

\* Lines of k bytes, with what follows them on stdin; strings of k bytes.
Bytes(k) == [i \in 1..k |-> "a"]
LineLengths == {0, 1, BUFFER_SIZE - 2, BUFFER_SIZE - 1, BUFFER_SIZE, MaxLine}
StdinContents ==
  {Bytes(k) \o rest : k \in LineLengths, rest \in {<<>>, <<"\n", "b">>}}
ReadArgs ==
  {INT_MIN, -1, 0, 1, 2, BUFFER_SIZE - 2, BUFFER_SIZE - 1, BUFFER_SIZE,
   BUFFER_SIZE + 1, MaxLine, INT_MAX}
Strings ==
  {[null |-> TRUE, chars |-> <<>>]}
  \cup {[null |-> FALSE, chars |-> Bytes(k)] :
          k \in {0, 2, BUFFER_SIZE - 1, BUFFER_SIZE, MaxLine}}
Starts == {-1, 0, 1, BUFFER_SIZE}
Ends == {0, 2, BUFFER_SIZE - 1, BUFFER_SIZE, MaxLine, INT_MAX}

InitRuntime ==
  /\ input = <<>>
  /\ position = FreshLexer.position
  /\ line = FreshLexer.line
  /\ column = FreshLexer.column
  /\ tokens = <<>>
  /\ starts = <<>>
  /\ IdleParser /\ IdleCodegen /\ IdleDriver
  /\ glob_buffer = [i \in 1..BUFFER_SIZE |-> NUL]
  /\ stdin \in StdinContents
  /\ called = NoCall
  /\ pc = "runtime"

\* A compiled program calls str_read(n).
StrRead ==
  /\ pc = "runtime"
  /\ ~called.crashed
  /\ called.calls < MaxCalls
  /\ \E n \in ReadArgs : \E size \in fgetsSize(n) :
       \E r \in {str_read(size, glob_buffer, stdin)} :
         \E crashed \in Crashes(r.extent) :
           /\ glob_buffer' = r.buf
           /\ stdin' = r.in
           /\ called' = [NoCall EXCEPT !.fn = "str_read", !.n = n, !.size = size,
                                       !.extent = r.extent, !.crashed = crashed,
                                       !.calls = called.calls + 1]
  /\ UNCHANGED <<input, position, line, column, tokens, starts, current, errors,
                 prog, module, functions, cgErrors, genIdx, dumpTokens, codegenMade,
                 irOut, exitCode, pc>>

\* A compiled program calls str_sub(str, start, end).
StrSub ==
  /\ pc = "runtime"
  /\ ~called.crashed
  /\ called.calls < MaxCalls
  /\ \E str \in Strings : \E start \in Starts : \E end \in Ends :
       \E r \in {str_sub(str, start, end, glob_buffer)} :
         \E crashed \in Crashes(r.extent) :
           /\ glob_buffer' = r.buf
           /\ called' = [NoCall EXCEPT !.fn = "str_sub", !.str = str,
                                       !.start = start, !.end = end,
                                       !.extent = r.extent, !.crashed = crashed,
                                       !.calls = called.calls + 1]
  /\ UNCHANGED <<input, position, line, column, tokens, starts, current, errors,
                 prog, module, functions, cgErrors, genIdx, dumpTokens, codegenMade,
                 irOut, exitCode, pc, stdin>>

NextRuntime == StrRead \/ StrSub

SpecRuntime == InitRuntime /\ [][NextRuntime]_vars

\* C21 as stated: the size str_read passes to fgets is min(n + 1, 256) for
\* every n, and what the call writes stays within glob_buffer.
C21_ReadsUpTo256 ==
  called.fn = "str_read" =>
    /\ called.n < INT_MAX => called.size = MIN(called.n + 1, 256)
    /\ called.n = INT_MAX => called.size = 256
    /\ called.extent <= BUFFER_SIZE

\* C21: the size str_read passes to fgets is min(n + 1, 255) for every n below
\* INT_MAX, and for every n what the call writes, the terminator with it,
\* stays within glob_buffer.
C21_ReadsUpTo255 ==
  called.fn = "str_read" =>
    /\ called.n < INT_MAX => called.size = MIN(called.n + 1, BUFFER_SIZE)
    /\ called.extent <= BUFFER_SIZE
    /\ called.extent <= MIN(called.size, BUFFER_SIZE) \/ called.extent = 1
    /\ \E i \in 1..BUFFER_SIZE : glob_buffer[i] = NUL

\* str_read(n) with n above the size of the buffer read a line longer than the
\* buffer: the buffer is full, and the rest of the line is on stdin.
C21_Witness ==
  /\ called.fn = "str_read"
  /\ called.n > BUFFER_SIZE
  /\ called.n < INT_MAX
  /\ called.extent = BUFFER_SIZE
  /\ strlen(glob_buffer) = BUFFER_SIZE - 1
  /\ stdin # <<>>
  /\ stdin[1] = "a"

\* C26: str_sub never writes outside glob_buffer: the bytes it copies and the
\* NUL it stores after them are at most BUFFER_SIZE.
C26_SubStaysInBuffer ==
  called.fn = "str_sub" => called.extent <= BUFFER_SIZE /\ ~called.crashed

(***************************************************************************)
(* The cursor of the parser.                                               *)
(***************************************************************************)
\* The tokens end with their only EOF token, and the cursor is on a token.
C22_Inv ==
  /\ tokens # <<>>
  /\ \A i \in 1..Len(tokens) : tokens[i].type = "EOF_TOKEN" <=> i = Len(tokens)
  /\ current \in 0..(Len(tokens) - 1)
\* The cursor does not go back; and in a round that calls parseFunction, at
\* cursor c after the comments, c is on a token before the EOF token, the
\* cursor parseFunction returns or throws with is not before c, the cursor
\* the round ends with is not before that, and is at least 1 (what previous()
\* reads, in advance() and in synchronize, is a token consumed in the round).
C22_Step ==
  /\ current' >= current
  /\ pc = "parse" /\ ~Parser_isAtEnd(tokens, skipComments(tokens, current)) =>
       \E c \in {skipComments(tokens, current)} :
         \E thrown \in {parseFunction(tokens, c).cur} :
           /\ current <= c
           /\ c < Len(tokens) - 1
           /\ c <= thrown
           /\ thrown <= current'
           /\ current' >= 1
           /\ current' > c

\* C22: in every state of the parser the cursor is between 0 and the index of
\* the EOF token, the last token; it never decreases; and the parse functions
\* run between cursors of that range, previous() being read after a token
\* was consumed: peek() and previous() stay inside the token vector.
C22_CursorInRange == [][C22_Inv /\ C22_Step /\ C22_Inv']_vars

\* Parse returned after an error that synchronize recovered from by running
\* to the EOF token, a function having been parsed before.
C22_Witness ==
  /\ pc = "parsed"
  /\ errors # <<>>
  /\ prog # <<>>
  /\ current = Len(tokens) - 1
  /\ tokens[current].type \notin {"LET", "EOF_TOKEN"}

\* C23: every round of the loop of Parser::parse that records an error or a
\* function moves the cursor forward by at least one token, and the errors and
\* functions recorded are never more than the tokens the cursor has passed:
\* never more than the tokens before the EOF token, so that parse returns.
C23_Round ==
  /\ Len(errors') + Len(prog') > Len(errors) + Len(prog) =>
       /\ current' > current
       /\ Len(errors') + Len(prog') = Len(errors) + Len(prog) + 1
  /\ pc = "parse" /\ pc' = "parse" => current' > current
  /\ Len(errors') + Len(prog') <= current'
  /\ current' <= Len(tokens') - 1
C23_ParseTerminates == [][C23_Round]_vars

\* Parse returned having recorded as many errors and functions as there are
\* tokens before the EOF token.
C23_Witness ==
  /\ pc = "parsed"
  /\ Len(errors) + Len(prog) = Len(tokens) - 1
  /\ Len(errors) >= 2

\* The positions of the LET tokens that start a well-formed definition, one
\* that parseFunction parses up to the next LET or the EOF token.
WellFormedAt(toks, i) ==
  /\ toks[i].type = "LET"
  /\ \E func \in {parseFunction(toks, i - 1)} :
       /\ func.ok
       /\ Parser_peek(toks, func.cur).type \in {"LET", "EOF_TOKEN"}
\* The token stream is a malformed definition, with no LET but its first
\* token, followed by well-formed definitions.
MalformedThenWellFormed ==
  /\ Cardinality(LetPositions) >= 2
  /\ NthLet(1) = 1
  /\ ~WellFormedAt(tokens, 1)
  /\ \A i \in LetPositions \ {1} : WellFormedAt(tokens, i)

\* C24: for a malformed definition followed by well-formed definitions, the
\* Program parse returns holds a FunctionDef for each of the well-formed
\* definitions.
C24_RecoveryKeepsLaterDefinitions ==
  pc = "parsed" /\ MalformedThenWellFormed =>
    /\ Len(prog) = Cardinality(LetPositions) - 1
    /\ \A k \in 2..Cardinality(LetPositions) :
         prog[k - 1] = parseFunction(tokens, NthLet(k) - 1).node

(***************************************************************************)
(* What a direct call resolves to.                                         *)
(***************************************************************************)
\* The FunctionCall nodes of an expression.
RECURSIVE CallsIn(_), CallsInArgs(_)
CallsInArgs(args) ==
  IF args = <<>> THEN {} ELSE CallsIn(Head(args)) \cup CallsInArgs(Tail(args))
CallsIn(e) ==
  CASE e.kind = "UnaryOp" -> CallsIn(e.operand)
    [] e.kind = "BinaryOp" -> CallsIn(e.left) \cup CallsIn(e.right)
    [] e.kind = "FunctionCall" -> {e} \cup CallsInArgs(e.args)
    [] e.kind = "ConditionalExpression" ->
         CallsIn(e.condition) \cup CallsIn(e.thenExpr) \cup CallsIn(e.elseExpr)
    [] OTHER -> {}
BuiltinNames ==
  {declareBuiltinFunctions[i].name[1] : i \in 1..Len(declareBuiltinFunctions)}
\* The direct calls of func that name no built-in, no function of the source
\* that is in the module, and not func.
CallsOfNothing(func) ==
  {call \in CallsIn(func.body) :
     /\ call.funcName \notin ParameterNames(func)
     /\ call.funcName \notin BuiltinNames
     /\ call.funcName # func.name
     /\ DefinitionsOf(call.funcName) = {}}
\* The position in the module of the function with IR name h.
PositionOf(h) == getFunction(module.funcs, h)

\* Every direct call of a function of the source refers to a built-in, to a
\* function generated before it, or to the function it is in, and to that one
\* only when no definition of its name was generated before.
C25_Inv ==
  \A j \in SourceFunctions : \A inst \in InstructionsOf(module.funcs[j]) :
    inst.op = "call" /\ Len(inst.callee) = 2 /\ inst.callee[1] = "func" =>
      /\ HasFunction(module.funcs, inst.callee[2])
      /\ \/ PositionOf(inst.callee[2]) <= Len(declareBuiltinFunctions)
         \/ PositionOf(inst.callee[2]) < j
         \/ /\ PositionOf(inst.callee[2]) = j
            /\ \A i \in DefinitionsOf(inst.callee[2][1]) : i >= j
\* Generating a function with a direct call of a name that is no built-in, no
\* function generated before and still in the module, and not its own, erases
\* it; and the call, when it is the body or an operand of the body, reports
\* "Undefined function", which no other call does.
C25_Round ==
  pc = "generate" /\ genIdx' = genIdx + 1 =>
    \E func \in {prog[genIdx']} :
      /\ CallsOfNothing(func) # {} =>
           /\ module'.funcs = module.funcs
           /\ functions' = functions
           /\ Len(cgErrors') > Len(cgErrors)
      /\ \A call \in CallsIn(func.body) \ CallsOfNothing(func) :
           \A i \in (Len(cgErrors) + 1)..Len(cgErrors') :
             cgErrors'[i].message # <<"Undefined function: ", call.funcName>>
      /\ \A call \in CallsOfNothing(func) :
           call \in {func.body}
                    \cup (IF func.body.kind = "BinaryOp"
                          THEN {func.body.left, func.body.right} ELSE {}) =>
             \E i \in (Len(cgErrors) + 1)..Len(cgErrors') :
               cgErrors'[i] = [message |-> <<"Undefined function: ", call.funcName>>,
                               loc |-> call.loc]

\* C25: while a function is generated, a direct call resolves to a built-in, to
\* a function of the source generated before it without error, or to the
\* function itself; a call of a function defined later in the source, or of an
\* earlier one that was erased, reports "Undefined function", and the function
\* is erased.
C25_CallsResolveBackwards == [][C25_Inv /\ C25_Round /\ C25_Inv']_vars

\* A definition was erased, and the function after it, which calls it, was
\* erased for "Undefined function".
C25_Witness ==
  /\ pc = "generate"
  /\ genIdx = 2
  /\ Len(cgErrors) = 2
  /\ \E call \in CallsIn(prog[2].body) :
       /\ call.funcName = prog[1].name
       /\ cgErrors[2] = [message |-> <<"Undefined function: ", prog[1].name>>,
                         loc |-> call.loc]
  /\ SourceFunctions = {}

(***************************************************************************)
(* The type of the value a function returns.                               *)
(***************************************************************************)
\* The IR type of the value of an expression of func that has one, with the
\* function table and the module as they are when func is generated.
RECURSIVE TypeOf(_, _)
TypeOf(e, func) ==
  CASE e.kind = "IntLiteral" -> "i32"
    [] e.kind = "FloatLiteral" -> "float"
    [] e.kind = "StringLiteral" -> "ptr"
    [] e.kind = "Identifier" ->
         IF e.name \in DOMAIN ArgValues(func) THEN ArgValues(func)[e.name].ty
         ELSE "ptr"
    [] e.kind = "UnaryOp" -> TypeOf(e.operand, func)
    [] e.kind = "BinaryOp" ->
         IF IsArithmetic(e.op) THEN TypeOf(e.left, func) ELSE "i1"
    [] e.kind = "FunctionCall" ->
         IF e.funcName \in DOMAIN ArgValues(func) THEN "i32"
         ELSE FunctionsWith(func)[getFunction(FunctionsWith(func),
                                              CalleeOf(e, func))].returnType
    [] e.kind = "ConditionalExpression" -> TypeOf(e.thenExpr, func)
Returns(f) == {inst \in InstructionsOf(f) : inst.op = "ret"}
\* The functions of the source in the module that return a value of another
\* type than their return type.
Mistyped ==
  {j \in SourceFunctions :
     \E ret \in Returns(module.funcs[j]) :
       ret.operands[1].ty # module.funcs[j].returnType}

\* C27 as stated: every function of the source that is in the module and in the
\* function table returns a value of the IR type of its declared return type.
C27_ReturnsDeclaredType ==
  \A j \in SourceFunctions : \A ret \in Returns(module.funcs[j]) :
    ret.operands[1].ty = module.funcs[j].returnType

\* C27: every function that code generation retains in the module and
\* registers in the function table returns the value of its body, whose IR
\* type need not be that of the declared return type: a function is retained
\* and registered when its generation reported no error, with one ret, of the
\* type of the body's value; and the module written holds every one retained.
C27_Round ==
  /\ pc = "generate" /\ genIdx' = genIdx + 1 =>
       \E func \in {prog[genIdx']} :
         /\ cgErrors' = cgErrors <=> Len(module'.funcs) = Len(module.funcs) + 1
         /\ Len(module'.funcs) = Len(module.funcs) + 1 =>
              \E f \in {module'.funcs[Len(module'.funcs)]} :
                /\ f.returnType = llvmType(func.returnType)
                /\ functions'[func.name] = f.name
                /\ Cardinality(Returns(f)) = 1
                /\ \A ret \in Returns(f) :
                     /\ Len(ret.operands) = 1
                     /\ ret.operands[1].ty = TypeOf(func.body, func)
  /\ pc = "generated" => irOut' = <<module>>
C27_ReturnsTypeOfBody == [][C27_Round]_vars

\* The IR written holds a function declared int that returns the i1 of a
\* comparison, and it is in the function table.
C27_Witness ==
  /\ pc = "exit"
  /\ irOut = <<module>>
  /\ \E j \in Mistyped :
       /\ module.funcs[j].returnType = "i32"
       /\ \A ret \in Returns(module.funcs[j]) :
            /\ ret.operands[1].ty = "i1"
            /\ \E inst \in InstructionsOf(module.funcs[j]) :
                 /\ inst.op = "icmp slt"
                 /\ ret.operands[1].ref = <<"inst", inst.id>>
       /\ functions[module.funcs[j].name[1]] = module.funcs[j].name

=============================================================================
